---- MODULE Spec2Model ----
(***************************************************************************)
(* Token lifecycle of the credential providers (ClientCredentials and     *)
(* AuthorizationCode of spotify_sdk/_sync/auth/__init__.py) called from    *)
(* several threads, the bearer-source validation of the transport and     *)
(* client constructors, the request loop, response handling and close()   *)
(* of the transport (spotify_sdk/_async/_base_client.py), and the         *)
(* loopback authorization flow (authorize_local).                         *)
(***************************************************************************)
EXTENDS Integers, Sequences, FiniteSets, TLC

\* ------------------------------------------------------------------ bounds
NumThreads == 2
MaxRequests == 2
MaxTime == 1
MaxRetriesChoice == 1
TokenLifetime == 1
MaxCalls == 2
MaxCloses == 2
MaxParams == 2
MaxGets == 2

\* ------------------------------------------------------------------ values
None == "<None>"
Absent == "<absent>"
Null == "<null>"

Threads == 1..NumThreads

\* TokenInfo(access_token, expires_at, refresh_token=None, scope=None)
TokenInfo(access_token, expires_at, refresh_token, scope) ==
    [access_token |-> access_token, expires_at |-> expires_at,
     refresh_token |-> refresh_token, scope |-> scope]

\* What TokenCache.get() returns on a miss.
NoToken == TokenInfo(None, 0, None, None)

\* Body of a response that carries no JSON object fields.
EmptyBody ==
    [access_token |-> Absent, expires_in_kind |-> "absent", expires_in |-> 0,
     refresh_token |-> Absent, scope |-> Absent]

NoResponse == [status |-> -1, body |-> EmptyBody]

\* httpx.ConnectError / httpx.TimeoutException: no HTTP response at all.
ConnectFailure == [status |-> 0, body |-> EmptyBody]

\* The locals of a thread that is in no call.
IdleFrame ==
    [pc |-> "idle", op |-> None, cached |-> NoToken, fallback |-> None,
     attempt |-> 0, response |-> NoResponse, token_info |-> NoToken,
     call_requests |-> 0, path |-> None, result |-> None]

\* An optional integer attribute that is None.
NoInt == -1

\* An exception object: its class, message, status_code, response_body,
\* retry_after (RateLimitError only) and the class of its __cause__.
Exc(cls, message, status_code, response_body, retry_after, cause) ==
    [cls |-> cls, message |-> message, status_code |-> status_code,
     response_body |-> response_body, retry_after |-> retry_after,
     cause |-> cause]

\* A JSON value as far as the transport looks into it: its type, the "id"
\* member of a payload object and the "error" member of an error object.
Json(type, id, error_type, error_text) ==
    [type |-> type, id |-> id, error_type |-> error_type,
     error_text |-> error_text]

\* The Python dict {}.
EmptyDict == Json("dict", Absent, Absent, Absent)

\* No value: nothing was returned, nothing was raised.
NoValue == Json(None, Absent, Absent, Absent)

NoException == Exc(None, None, NoInt, NoValue, NoInt, None)

\* An httpx.Response: status code, raw body text, Retry-After header.
Response(status, body, retry_after) ==
    [status |-> status, body |-> body, retry_after |-> retry_after]

\* What the provider and the network did in an attempt of request(): how
\* the access token was obtained, and whether the request raised or was
\* answered.
Outcome(token, net, response) ==
    [token |-> token, net |-> net, response |-> response]

\* No attempt was made yet.
NoOutcome == Outcome(None, None, Response(0, "", Absent))

\* The locals of request() when no call is in progress.
IdleCall ==
    [pc |-> "idle", retries |-> 0, attempt |-> 0,
     last_exception |-> NoException, http_attempts |-> 0, sleeps |-> <<>>,
     outcome |-> NoOutcome, bearers |-> <<>>, posts_before |-> 0,
     only_retryable |-> TRUE, result |-> NoValue, error |-> NoException]

\* No transport has been constructed.
NoTransport ==
    [cls |-> "none", _access_token |-> None, _auth_provider |-> None,
     _max_retries |-> 0, _client |-> 0, scope |-> "none", requests |-> 0,
     closes |-> 0]

\* No credential provider holds a connection.
NoAuthClient ==
    [_client |-> 0, _owns_client |-> FALSE, has_close |-> FALSE,
     closes |-> 0]

\* _handle_response() has been given nothing.
NoHandled ==
    [response |-> Response(0, "", Absent), done |-> FALSE,
     parsed |-> FALSE, result |-> NoValue, error |-> NoException]

\* An exception of the loopback flow: its class and message.
Failure(cls, message) == [cls |-> cls, message |-> message]

NoFailure == Failure(None, None)

\* A Python value: its type and its text (repr for numbers).
Py(t, v) == [t |-> t, v |-> v]

PyNone == Py("NoneType", "None")

\* A JSON value as written in a document: its kind and its literal; Absent
\* for a key the object does not have.
Js(t, v) == [t |-> t, v |-> v]

JsAbsent == Js(Absent, "")

\* The content of a file: whether it can be read and decoded, and the JSON
\* document in it: its top-level shape and, for an object, the values of
\* the four keys.
File(state, shape, access_token, expires_at, refresh_token, scope) ==
    [state |-> state, shape |-> shape, access_token |-> access_token,
     expires_at |-> expires_at, refresh_token |-> refresh_token,
     scope |-> scope]

\* A file whose content is no JSON object: only its state and shape count.
FileWithout(state, shape) ==
    File(state, shape, JsAbsent, JsAbsent, JsAbsent, JsAbsent)

NoCached == TokenInfo(PyNone, PyNone, PyNone, PyNone)

\* No FileTokenCache call was made; the file does not exist.
NoFileCache ==
    [file |-> FileWithout("missing", None), op |-> "none",
     returned |-> "none", result |-> NoCached, error |-> None,
     written |-> FALSE, token |-> NoCached]

\* No loopback authorization is in progress.
NoLoopback ==
    [op |-> "none", pc |-> "idle", listener |-> "none", socket |-> "none",
     open_browser |-> FALSE, handler |-> FALSE, expected_state |-> None,
     gets |-> 0, served |-> 0, received |-> FALSE, has_callback |-> FALSE,
     callback_path |-> <<>>, url |-> <<>>, code |-> None,
     token_requests |-> 0, pending |-> NoFailure, error |-> NoFailure,
     result |-> None]

VARIABLES
    transport,          \* the AsyncBaseClient instance
    call,               \* locals and outcome of the current request() call
    conns,              \* every HTTP connection object created so far
    auth_client,        \* connection fields of the credential provider
    handled,            \* a response given to _handle_response()
    loopback,           \* an authorize_local() / parse_response_url() call
    file_cache,         \* a FileTokenCache: its file and its last call
    kind,               \* which provider class the instance is
    token_cache,        \* InMemoryTokenCache._token
    self_refresh_token, \* AuthorizationCode._refresh_token
    self_scope,         \* AuthorizationCode._scope
    max_retries,        \* provider._max_retries
    skew_seconds,       \* provider._skew_seconds
    lock,               \* provider._lock: 0 when free, else the holder
    now,                \* time.time()
    requests,           \* POSTs to the token endpoint so far
    frame,              \* per thread: position, locals and outcome of its call
    exchange_called,    \* exchange_code() has been called on the instance
    bad_answer,         \* some request was not answered with a usable token
    ctor                \* constructor call under validation

\* State of the transport and of the loopback flow.
io_vars ==
    <<transport, call, conns, auth_client, handled, loopback, file_cache>>

vars ==
    <<transport, call, conns, auth_client, handled, loopback, file_cache,
      kind, token_cache, self_refresh_token, self_scope, max_retries,
      skew_seconds, lock, now, requests, frame, exchange_called,
      bad_answer, ctor>>

\* ----------------------------------------------------------------- helpers

\* Python truthiness of an optional string.
Truthy(s) == s # None /\ s # ""

\* a or b
PyOr(a, b) == IF Truthy(a) THEN a ELSE b

\* dict.get(key, default) on a parsed JSON body field.
DataGet(field, default) ==
    IF field = Absent THEN default
    ELSE IF field = Null THEN None
    ELSE field


\* The comparison of is_expired turned around.
is_expired_Reversed(token, skew) == now <= token.expires_at - skew

\* TokenInfo.is_expired(skew_seconds)
is_expired(token, skew) == now >= token.expires_at - skew

\* The condition of the fast path and of the re-check under the lock.
\* ClientCredentials: cached and not cached.is_expired(...)
\* AuthorizationCode: cached and cached.access_token and not cached.is_expired(...)
CacheUsable(c) ==
    /\ c # NoToken
    /\ (kind = "AuthorizationCode" => Truthy(c.access_token))
    /\ ~is_expired(c, skew_seconds)

\* Access tokens and refresh tokens the token endpoint hands out.
AccessTokens == {"A1"}
RefreshTokens == {"R1"}

\* Responses the token endpoint may give.
StatusCodes == {400, 500}

SuccessBodies ==
    [access_token : AccessTokens,
     expires_in_kind : {"number"},
     expires_in : {TokenLifetime},
     refresh_token : {Absent, Null} \cup RefreshTokens,
     scope : {Absent}]
    \cup
    [access_token : {"A1"},
     expires_in_kind : {"absent", "invalid"},
     expires_in : {0},
     refresh_token : {Absent},
     scope : {Absent}]
    \cup
    [access_token : {Absent, ""},
     expires_in_kind : {"number"},
     expires_in : {TokenLifetime},
     refresh_token : RefreshTokens,
     scope : {Absent}]

Responses ==
    {ConnectFailure}
    \cup {[status |-> s, body |-> EmptyBody] : s \in StatusCodes}
    \cup {[status |-> 200, body |-> b] : b \in SuccessBodies}

is_success(r) == r.status >= 200 /\ r.status < 300

\* Outcome of _handle_response: a TokenInfo, or the exception raised.
\* ClientCredentials._handle_response
HandleResponseCC(r) ==
    IF is_success(r)
    THEN LET access_token == DataGet(r.body.access_token, None)
             expires_in == IF r.body.expires_in_kind = "absent"
                           THEN None ELSE r.body.expires_in_kind
         IN IF access_token = None \/ expires_in = None
            THEN [raise |-> "AuthenticationError", token |-> NoToken]
            ELSE IF r.body.expires_in_kind = "invalid"
            THEN [raise |-> "ValueError", token |-> NoToken]
            ELSE [raise |-> None,
                  token |-> TokenInfo(access_token, now + r.body.expires_in,
                                      None, None)]
    ELSE IF r.status >= 500
    THEN [raise |-> "ServerError", token |-> NoToken]
    ELSE [raise |-> "AuthenticationError", token |-> NoToken]

\* _handle_response that reads refresh_token without the fallback.
HandleResponseAC_NoFallback(r, require_refresh_token, fallback_refresh_token) ==
    IF is_success(r)
    THEN LET access_token == DataGet(r.body.access_token, None)
             expires_in == IF r.body.expires_in_kind = "absent"
                           THEN None ELSE r.body.expires_in_kind
             refresh_token == DataGet(r.body.refresh_token, None)
         IN IF access_token = None \/ expires_in = None
            THEN [raise |-> "AuthenticationError", token |-> NoToken]
            ELSE IF require_refresh_token /\ refresh_token = None
            THEN [raise |-> "AuthenticationError", token |-> NoToken]
            ELSE IF r.body.expires_in_kind = "invalid"
            THEN [raise |-> "AuthenticationError", token |-> NoToken]
            ELSE [raise |-> None,
                  token |-> TokenInfo(access_token, now + r.body.expires_in,
                                      refresh_token,
                                      DataGet(r.body.scope, self_scope))]
    ELSE IF r.status >= 500
    THEN [raise |-> "ServerError", token |-> NoToken]
    ELSE [raise |-> "AuthenticationError", token |-> NoToken]

\* AuthorizationCode._handle_response
HandleResponseAC(r, require_refresh_token, fallback_refresh_token) ==
    IF is_success(r)
    THEN LET access_token == DataGet(r.body.access_token, None)
             expires_in == IF r.body.expires_in_kind = "absent"
                           THEN None ELSE r.body.expires_in_kind
             refresh_token ==
                 DataGet(r.body.refresh_token, fallback_refresh_token)
         IN IF access_token = None \/ expires_in = None
            THEN [raise |-> "AuthenticationError", token |-> NoToken]
            ELSE IF require_refresh_token /\ refresh_token = None
            THEN [raise |-> "AuthenticationError", token |-> NoToken]
            ELSE IF r.body.expires_in_kind = "invalid"
            THEN [raise |-> "AuthenticationError", token |-> NoToken]
            ELSE [raise |-> None,
                  token |-> TokenInfo(access_token, now + r.body.expires_in,
                                      refresh_token,
                                      DataGet(r.body.scope, self_scope))]
    ELSE IF r.status >= 500
    THEN [raise |-> "ServerError", token |-> NoToken]
    ELSE [raise |-> "AuthenticationError", token |-> NoToken]

HandleResponse(r, require_refresh_token, fallback_refresh_token) ==
    IF kind = "ClientCredentials"
    THEN HandleResponseCC(r)
    ELSE HandleResponseAC(r, require_refresh_token, fallback_refresh_token)

\* The retry test off by one.
MayRetry_OffByOne(a) == a <= max_retries

\* for attempt in range(self._max_retries + 1): ... if attempt < self._max_retries
MayRetry(a) == a < max_retries

\* The loop of _fetch_token catching AuthenticationError like ServerError.
FetchStep_RetryAuth(r, a, require_refresh_token, fallback_refresh_token) ==
    IF r = ConnectFailure
    THEN IF MayRetry(a)
         THEN [next |-> "retry", raise |-> None, token |-> NoToken]
         ELSE [next |-> "raise", raise |-> "SpotifyError", token |-> NoToken]
    ELSE LET out == HandleResponse(r, require_refresh_token,
                                   fallback_refresh_token)
         IN IF out.raise = None
            THEN [next |-> "return", raise |-> None, token |-> out.token]
            ELSE IF out.raise \in {"ServerError", "AuthenticationError"}
                    /\ MayRetry(a)
            THEN [next |-> "retry", raise |-> None, token |-> NoToken]
            ELSE [next |-> "raise", raise |-> out.raise, token |-> NoToken]

\* The loop of _fetch_token returning an empty TokenInfo where it should
\* raise.
FetchStep_NoRaise(r, a, require_refresh_token, fallback_refresh_token) ==
    IF r = ConnectFailure
    THEN IF MayRetry(a)
         THEN [next |-> "retry", raise |-> None, token |-> NoToken]
         ELSE [next |-> "return", raise |-> None, token |-> NoToken]
    ELSE LET out == HandleResponse(r, require_refresh_token,
                                   fallback_refresh_token)
         IN IF out.raise = None
            THEN [next |-> "return", raise |-> None, token |-> out.token]
            ELSE IF out.raise = "ServerError" /\ MayRetry(a)
            THEN [next |-> "retry", raise |-> None, token |-> NoToken]
            ELSE [next |-> "return", raise |-> None, token |-> NoToken]

\* One iteration of the loop of _fetch_token on response r at attempt a:
\* the TokenInfo returned, a retry after the backoff sleep, or the exception
\* that leaves the loop.
FetchStep(r, a, require_refresh_token, fallback_refresh_token) ==
    IF r = ConnectFailure
    THEN IF MayRetry(a)
         THEN [next |-> "retry", raise |-> None, token |-> NoToken]
         ELSE [next |-> "raise", raise |-> "SpotifyError", token |-> NoToken]
    ELSE LET out == HandleResponse(r, require_refresh_token,
                                   fallback_refresh_token)
         IN IF out.raise = None
            THEN [next |-> "return", raise |-> None, token |-> out.token]
            ELSE IF out.raise = "ServerError" /\ MayRetry(a)
            THEN [next |-> "retry", raise |-> None, token |-> NoToken]
            ELSE [next |-> "raise", raise |-> out.raise, token |-> NoToken]

\* refresh_token = (cached.refresh_token if cached else None)
\*                 or self._refresh_token
PickRefreshToken(c, own) ==
    PyOr(IF c # NoToken THEN c.refresh_token ELSE None, own)

\* ----------------------------------------------------------------- actions

\* Fixed at construction.
config == <<kind, self_scope, max_retries, skew_seconds>>

\* Bookkeeping no provider action touches but the ones that name it.
history == <<exchange_called, bad_answer>>

\* A with-block that keeps the lock when an exception leaves it.
Finish_KeepLockOnRaise(t, f, p, v) ==
    /\ frame' = [frame EXCEPT ![t] =
                    [f EXCEPT !.pc = "returned", !.path = p, !.result = v,
                              !.cached = NoToken, !.token_info = NoToken]]
    /\ lock' = IF lock = t /\ p # "raise" THEN 0 ELSE lock

\* The call of thread t ends with value v (returned or raised) on path p;
\* leaving the with-block releases the lock.  The locals cached and
\* token_info are dead from here on.
Finish(t, f, p, v) ==
    /\ frame' = [frame EXCEPT ![t] =
                    [f EXCEPT !.pc = "returned", !.path = p, !.result = v,
                              !.cached = NoToken, !.token_info = NoToken]]
    /\ lock' = IF lock = t THEN 0 ELSE lock

\* The call of thread t goes on with frame f.
Goto(t, f) ==
    /\ frame' = [frame EXCEPT ![t] = f]
    /\ UNCHANGED lock

\* self._http_client.post(TOKEN_URL, ...): the request of frame f leaves.
Post(t, f) ==
    /\ requests < MaxRequests
    /\ requests' = requests + 1
    /\ Goto(t, [f EXCEPT !.call_requests = @ + 1, !.pc = "await"])

\* The caller takes the outcome of its call; the frame is gone.
Resume(t) ==
    /\ frame[t].pc = "returned"
    /\ frame' = [frame EXCEPT ![t] = IdleFrame]
    /\ UNCHANGED io_vars
    /\ UNCHANGED <<config, history, token_cache, self_refresh_token, lock,
                   now, requests, ctor>>

\* The first read of the cache moved inside the with-block.
GatFastPath_UnderLock(t) ==
    /\ frame[t].pc = "idle"
    /\ lock = 0
    /\ LET f == [IdleFrame EXCEPT !.op = "get_access_token"]
       IN IF CacheUsable(token_cache)
          THEN Finish(t, f, "fast", token_cache.access_token)
          ELSE Goto(t, [f EXCEPT !.pc = "gat_lock"])
    /\ UNCHANGED io_vars
    /\ UNCHANGED <<config, history, token_cache, self_refresh_token, now,
                   requests, ctor>>

\* get_access_token(): the first read of the cache, outside the lock.
GatFastPath(t) ==
    /\ frame[t].pc = "idle"
    /\ LET f == [IdleFrame EXCEPT !.op = "get_access_token"]
       IN IF CacheUsable(token_cache)
          THEN Finish(t, f, "fast", token_cache.access_token)
          ELSE Goto(t, [f EXCEPT !.pc = "gat_lock"])
    /\ UNCHANGED io_vars
    /\ UNCHANGED <<config, history, token_cache, self_refresh_token, now,
                   requests, ctor>>

\* The with-block without the second read of the cache.
GatLocked_NoRecheck(t) ==
    /\ frame[t].pc = "gat_lock"
    /\ lock = 0
    /\ IF kind = "ClientCredentials"
       THEN /\ requests < MaxRequests
            /\ requests' = requests + 1
            /\ frame' = [frame EXCEPT ![t] =
                           [@ EXCEPT !.call_requests = @ + 1,
                                     !.pc = "await"]]
            /\ lock' = t
       ELSE /\ frame' = [frame EXCEPT ![t] =
                           [@ EXCEPT !.cached = token_cache,
                                     !.pc = "gat_refresh"]]
            /\ lock' = t
            /\ UNCHANGED requests
    /\ UNCHANGED io_vars
    /\ UNCHANGED <<config, history, token_cache, self_refresh_token, now,
                   ctor>>

\* with self._lock: the second read of the cache, under the lock;
\* ClientCredentials fetches at once when the cache is still stale.
GatLocked(t) ==
    /\ frame[t].pc = "gat_lock"
    /\ lock = 0
    /\ IF CacheUsable(token_cache)
       THEN /\ Finish(t, frame[t], "recheck", token_cache.access_token)
            /\ UNCHANGED requests
       ELSE IF kind = "ClientCredentials"
       THEN /\ requests < MaxRequests
            /\ requests' = requests + 1
            /\ frame' = [frame EXCEPT ![t] =
                           [@ EXCEPT !.call_requests = @ + 1,
                                     !.pc = "await"]]
            /\ lock' = t
       ELSE /\ frame' = [frame EXCEPT ![t] =
                           [@ EXCEPT !.cached = token_cache,
                                     !.pc = "gat_refresh"]]
            /\ lock' = t
            /\ UNCHANGED requests
    /\ UNCHANGED io_vars
    /\ UNCHANGED <<config, history, token_cache, self_refresh_token, now,
                   ctor>>

\* get_access_token() without the test for a missing refresh token.
GatRefresh_NoCheck(t) ==
    /\ frame[t].pc = "gat_refresh"
    /\ LET refresh_token ==
               PickRefreshToken(frame[t].cached, self_refresh_token)
       IN Post(t, [frame[t] EXCEPT !.fallback = refresh_token,
                                   !.cached = NoToken])
    /\ UNCHANGED io_vars
    /\ UNCHANGED <<config, history, token_cache, self_refresh_token, now,
                   ctor>>

\* AuthorizationCode.get_access_token(): choose the refresh token, or raise.
GatRefresh(t) ==
    /\ frame[t].pc = "gat_refresh"
    /\ LET refresh_token ==
               PickRefreshToken(frame[t].cached, self_refresh_token)
       IN IF refresh_token = None
          THEN /\ Finish(t, frame[t], "raise", "AuthenticationError")
               /\ UNCHANGED requests
          ELSE Post(t, [frame[t] EXCEPT !.fallback = refresh_token,
                                        !.cached = NoToken])
    /\ UNCHANGED io_vars
    /\ UNCHANGED <<config, history, token_cache, self_refresh_token, now,
                   ctor>>

\* AuthorizationCode.exchange_code(code); the lock is not taken.
ExchangeCode(t, code) ==
    /\ kind = "AuthorizationCode"
    /\ frame[t].pc = "idle"
    /\ exchange_called' = TRUE
    /\ LET f == [IdleFrame EXCEPT !.op = "exchange_code"]
       IN IF ~Truthy(code)
          THEN /\ Finish(t, f, "raise", "ValueError")
               /\ UNCHANGED requests
          ELSE Post(t, f)
    /\ UNCHANGED io_vars
    /\ UNCHANGED <<config, bad_answer, token_cache, self_refresh_token,
                   now, ctor>>

\* The token endpoint answers, or the connection fails, and _fetch_token
\* sleeps and posts again, raises, or returns the TokenInfo, which the caller
\* stores with self._token_cache.set(token_info); ClientCredentials returns
\* after that.
Receive(t) ==
    /\ frame[t].pc = "await"
    /\ \E r \in Responses :
         LET step == FetchStep(r, frame[t].attempt,
                               frame[t].op = "exchange_code",
                               frame[t].fallback)
             f == [frame[t] EXCEPT !.response = r]
         IN /\ bad_answer' = (\/ bad_answer
                               \/ step.next # "return"
                               \/ ~Truthy(step.token.access_token))
            /\ CASE step.next = "return" ->
                      /\ token_cache' = step.token
                      /\ IF kind = "ClientCredentials"
                         THEN Finish(t, f, "fetch", step.token.access_token)
                         ELSE Goto(t, [f EXCEPT !.token_info = step.token,
                                                !.pc = "set_refresh"])
                      /\ UNCHANGED requests
                 [] step.next = "retry" ->
                      /\ Post(t, [f EXCEPT !.attempt = @ + 1])
                      /\ UNCHANGED token_cache
                 [] step.next = "raise" ->
                      /\ Finish(t, f, "raise", step.raise)
                      /\ UNCHANGED <<token_cache, requests>>
    /\ UNCHANGED io_vars
    /\ UNCHANGED <<config, exchange_called, self_refresh_token, now, ctor>>

\* self._refresh_token = token_info.refresh_token, and the call returns.
SetRefresh(t) ==
    /\ frame[t].pc = "set_refresh"
    /\ self_refresh_token' = frame[t].token_info.refresh_token
    /\ Finish(t, frame[t], "fetch", frame[t].token_info.access_token)
    /\ UNCHANGED io_vars
    /\ UNCHANGED <<config, history, token_cache, now, requests, ctor>>

\* time.time() advances.
Tick ==
    /\ now < MaxTime
    /\ now' = now + 1
    /\ UNCHANGED io_vars
    /\ UNCHANGED <<config, history, token_cache, self_refresh_token, lock,
                   requests, frame, ctor>>

\* Codes a caller may pass to exchange_code().
Codes == {"", "code1"}

\* skew_seconds values a provider may be constructed with.
SkewChoices == {0, 1}

\* Tokens a cache may hold when the provider is constructed.
InitialCaches ==
    {NoToken}
    \cup {TokenInfo("A0", e, r, None) :
              e \in {0, TokenLifetime}, r \in {None, "R0"}}

\* No client is being constructed.
NoCtor ==
    [cls |-> "none", access_token |-> None, auth_provider |-> None,
     client_id |-> None, client_secret |-> None,
     env_client_id |-> None, env_client_secret |-> None,
     outcome |-> "none", self_access_token |-> None,
     self_auth_provider |-> None]

\* No transport exists.
IdleTransport ==
    /\ transport = NoTransport
    /\ call = IdleCall
    /\ conns = <<>>
    /\ auth_client = NoAuthClient

\* _handle_response() is not under study.
IdleHandle == handled = NoHandled

\* No loopback authorization runs.
IdleLoopback == loopback = NoLoopback

\* No FileTokenCache is under study.
IdleFileCache == file_cache = NoFileCache

InitProvider ==
    /\ kind \in {"ClientCredentials", "AuthorizationCode"}
    /\ token_cache \in InitialCaches
    /\ kind = "ClientCredentials" => token_cache.refresh_token = None
    /\ self_refresh_token \in
           IF kind = "ClientCredentials" THEN {None} ELSE {None, "Rb"}
    /\ self_scope = None
    /\ max_retries \in 0..MaxRetriesChoice
    /\ skew_seconds \in SkewChoices
    /\ lock = 0
    /\ now = 0
    /\ requests = 0
    /\ frame = [t \in Threads |-> IdleFrame]
    /\ exchange_called = FALSE
    /\ bad_answer = FALSE

Init ==
    /\ InitProvider
    /\ ctor = NoCtor
    /\ IdleTransport
    /\ IdleHandle
    /\ IdleLoopback
    /\ IdleFileCache

\* ------------------------------------------------------------ constructors

\* AsyncBaseClient.__init__ without the test for two bearer sources.
BaseClientInit_NoBothCheck(access_token, auth_provider) ==
    IF ~Truthy(access_token) /\ auth_provider = None
    THEN [raise |-> "ValueError", access_token |-> None,
          auth_provider |-> None]
    ELSE [raise |-> None, access_token |-> access_token,
          auth_provider |-> auth_provider]

\* AsyncBaseClient.__init__(access_token, auth_provider): the exception
\* raised, or the _access_token and _auth_provider the transport keeps.
BaseClientInit(access_token, auth_provider) ==
    IF Truthy(access_token) /\ auth_provider # None
    THEN [raise |-> "ValueError", access_token |-> None,
          auth_provider |-> None]
    ELSE IF ~Truthy(access_token) /\ auth_provider = None
    THEN [raise |-> "ValueError", access_token |-> None,
          auth_provider |-> None]
    ELSE [raise |-> None, access_token |-> access_token,
          auth_provider |-> auth_provider]

\* ClientCredentials.__init__(client_id, client_secret) with the environment
\* variables SPOTIFY_SDK_CLIENT_ID and SPOTIFY_SDK_CLIENT_SECRET: raises, or not.
ClientCredentialsInit(client_id, client_secret, env_id, env_secret) ==
    LET resolved_id == PyOr(client_id, env_id)
        resolved_secret == PyOr(client_secret, env_secret)
    IN IF ~Truthy(resolved_id) \/ ~Truthy(resolved_secret)
       THEN "ValueError" ELSE None

\* SpotifyClient.__init__ on the arguments and environment of call c.
SpotifyClientInit(c) ==
    LET rejected == [raise |-> "ValueError", access_token |-> None,
                     auth_provider |-> None]
        creds == Truthy(c.client_id) \/ Truthy(c.client_secret)
    IN IF c.auth_provider # None /\ (Truthy(c.access_token) \/ creds)
       THEN rejected
       ELSE IF Truthy(c.access_token) /\ creds
       THEN rejected
       ELSE IF c.auth_provider = None /\ creds
               /\ ClientCredentialsInit(c.client_id, c.client_secret,
                                         c.env_client_id,
                                         c.env_client_secret) # None
       THEN rejected
       ELSE LET auth_provider ==
                    IF c.auth_provider = None /\ creds
                    THEN "ClientCredentials" ELSE c.auth_provider
            IN IF auth_provider = None /\ c.access_token = None
               THEN rejected
               ELSE BaseClientInit(c.access_token, auth_provider)

\* The constructor call ends with outcome out.
Constructed(out) ==
    ctor' = [ctor EXCEPT
                !.outcome = IF out.raise = None
                            THEN "constructed" ELSE out.raise,
                !.self_access_token = out.access_token,
                !.self_auth_provider = out.auth_provider]

\* AsyncBaseClient(access_token=..., auth_provider=...)
NewBaseClient ==
    /\ ctor.cls = "AsyncBaseClient"
    /\ ctor.outcome = "pending"
    /\ Constructed(BaseClientInit(ctor.access_token, ctor.auth_provider))
    /\ UNCHANGED io_vars
    /\ UNCHANGED <<config, history, token_cache, self_refresh_token, lock,
                   now, requests, frame>>

\* SpotifyClient(access_token=..., client_id=..., client_secret=...,
\*               auth_provider=...)
NewSpotifyClient ==
    /\ ctor.cls = "SpotifyClient"
    /\ ctor.outcome = "pending"
    /\ Constructed(SpotifyClientInit(ctor))
    /\ UNCHANGED io_vars
    /\ UNCHANGED <<config, history, token_cache, self_refresh_token, lock,
                   now, requests, frame>>

\* Values a caller may pass for an optional string argument.
OptionalStrings == {None, "", "value"}

\* Constructor calls: the transport takes a token and a provider, the client
\* also client credentials, read from the environment when not passed.
CtorCalls ==
    [cls : {"AsyncBaseClient"}, access_token : OptionalStrings,
     auth_provider : {None, "provider"},
     client_id : {None}, client_secret : {None},
     env_client_id : {None}, env_client_secret : {None},
     outcome : {"pending"}, self_access_token : {None},
     self_auth_provider : {None}]
    \cup
    [cls : {"SpotifyClient"}, access_token : OptionalStrings,
     auth_provider : {None, "provider"},
     client_id : {None, "value"}, client_secret : {None, "value"},
     env_client_id : {None, "value"}, env_client_secret : {None, "value"},
     outcome : {"pending"}, self_access_token : {None},
     self_auth_provider : {None}]

\* A client is constructed around a fresh ClientCredentials provider that no
\* thread has called yet.
InitClient ==
    /\ InitProvider
    /\ kind = "ClientCredentials"
    /\ token_cache = NoToken
    /\ max_retries = 0
    /\ skew_seconds = 0
    /\ ctor \in CtorCalls
    /\ IdleTransport
    /\ IdleHandle
    /\ IdleLoopback
    /\ IdleFileCache

NextClient ==
    \/ NewBaseClient
    \/ NewSpotifyClient

SpecClient == InitClient /\ [][NextClient]_vars

ThreadStep(t) ==
    \/ GatFastPath(t)
    \/ GatLocked(t)
    \/ GatRefresh(t)
    \/ \E code \in Codes : ExchangeCode(t, code)
    \/ Receive(t)
    \/ SetRefresh(t)
    \/ Resume(t)

\* Any number of threads call the provider concurrently.
Next ==
    \/ Tick
    \/ \E t \in Threads : ThreadStep(t)

Spec == Init /\ [][Next]_vars

\* Threads whose call has started and not ended.
InProgress == {t \in Threads : frame[t].pc \notin {"idle", "returned"}}

\* A thread calls get_access_token() once; callers arrive while the requests
\* counted by the model suffice for every call in progress, and for the new
\* one, to use all its attempts.
CallStart(t) ==
    /\ requests + (max_retries + 1) * (Cardinality(InProgress) + 1)
           <= MaxRequests
    /\ GatFastPath(t)

\* A step of a get_access_token() call that has started.
Proceed(t) ==
    \/ GatLocked(t)
    \/ GatRefresh(t)
    \/ Receive(t)
    \/ SetRefresh(t)

\* Concurrent get_access_token() calls, one per thread.
NextLive ==
    \/ Tick
    \/ \E t \in Threads : CallStart(t)
    \/ \E t \in Threads : GatLocked(t)
    \/ \E t \in Threads : GatRefresh(t)
    \/ \E t \in Threads : Receive(t)
    \/ \E t \in Threads : SetRefresh(t)

\* Every thread that can take a step of its call eventually takes one: the
\* scheduler is fair, the lock is handed to a waiting thread once it stays
\* free, and every request to the token endpoint is answered or fails.
Fairness == \A t \in Threads : WF_vars(Proceed(t))

SpecLive == Init /\ [][NextLive]_vars /\ Fairness

\* One caller: calls on the provider never overlap.
NextSeq ==
    \/ Tick
    \/ ThreadStep(1)

SpecSeq == Init /\ [][NextSeq]_vars

\* ------------------------------------------------------- response handling

\* Raw response bodies: empty, not JSON, and JSON texts.
RawBodies ==
    {"", "<html>", "{}", "{\"id\":\"x\"}", "{\"error\":{\"message\":\"m\"}}",
     "{\"error\":{}}", "{\"error\":\"e\"}", "null"}

\* What response.json() cannot decode.
Invalid == Json("invalid", Absent, Absent, Absent)

\* response.json(): the decoded value of a raw body.
json_loads(raw) ==
    CASE raw = "{}" -> EmptyDict
      [] raw = "{\"id\":\"x\"}" -> Json("dict", "x", Absent, Absent)
      [] raw = "{\"error\":{\"message\":\"m\"}}" ->
             Json("dict", Absent, "dict", "m")
      [] raw = "{\"error\":{}}" -> Json("dict", Absent, "dict", Absent)
      [] raw = "{\"error\":\"e\"}" -> Json("dict", Absent, "str", "e")
      [] raw = "null" -> Json("null", Absent, Absent, Absent)
      [] OTHER -> Invalid

\* Retry-After header values: none, delay seconds, and an HTTP-date.
RetryAfterHeaders == {Absent, "0", "2", "Sun, 01 Nov 2026 08:00:00 GMT"}

\* int(text): the integer a decimal string denotes, ok = FALSE where int()
\* raises ValueError.
PyInt(text) ==
    CASE text = "0" -> [ok |-> TRUE, value |-> 0]
      [] text = "2" -> [ok |-> TRUE, value |-> 2]
      [] OTHER -> [ok |-> FALSE, value |-> NoInt]

\* int(response.headers.get("Retry-After", 1))
retry_after_of(response) ==
    IF response.retry_after = Absent
    THEN [ok |-> TRUE, value |-> 1]
    ELSE PyInt(response.retry_after)

\* _extract_error_message(data)
extract_error_message(data) ==
    IF data.type = "dict" /\ data.error_type # Absent
    THEN IF data.error_type = "dict"
         THEN IF data.error_text = Absent THEN "Unknown error"
              ELSE data.error_text
         ELSE data.error_text
    ELSE "Unknown error"

\* The exception class _handle_response() picks for a non-2xx status.
ErrorClass(status) ==
    CASE status = 400 -> "BadRequestError"
      [] status = 401 -> "AuthenticationError"
      [] status = 403 -> "ForbiddenError"
      [] status = 404 -> "NotFoundError"
      [] status = 429 -> "RateLimitError"
      [] status >= 500 -> "ServerError"
      [] OTHER -> "SpotifyError"

\* _handle_response(response): what it returns or raises, and whether it
\* called response.json().
handle_response(response) ==
    LET decoded == json_loads(response.body)
        data == IF decoded = Invalid THEN EmptyDict ELSE decoded
        retry_after == retry_after_of(response)
    IN  IF response.status = 204
        THEN [parsed |-> FALSE, result |-> EmptyDict, error |-> NoException]
        ELSE IF is_success(response)
        THEN [parsed |-> TRUE, result |-> data, error |-> NoException]
        ELSE IF response.status = 429 /\ ~retry_after.ok
        THEN [parsed |-> TRUE, result |-> NoValue,
              error |-> Exc("ValueError", "invalid literal for int()",
                            NoInt, NoValue, NoInt, None)]
        ELSE [parsed |-> TRUE, result |-> NoValue,
              error |-> Exc(ErrorClass(response.status),
                            extract_error_message(data), response.status,
                            data,
                            IF response.status = 429
                            THEN retry_after.value ELSE NoInt,
                            None)]

\* Status codes a response may carry: one of each class of
\* _handle_response() and the boundaries of the 2xx range.
HttpStatuses == {199, 200, 201, 204, 299, 300, 400, 401, 403, 404, 418, 429,
                 499, 500, 503}

\* Every response _handle_response() is checked on.
AllResponses ==
    {Response(sc, b, h) : sc \in HttpStatuses, b \in RawBodies,
                          h \in RetryAfterHeaders}

\* self._handle_response(response)
HandleOne ==
    /\ ~handled.done
    /\ LET out == handle_response(handled.response)
       IN  handled' = [handled EXCEPT !.done = TRUE, !.parsed = out.parsed,
                                      !.result = out.result,
                                      !.error = out.error]
    /\ UNCHANGED <<transport, call, conns, auth_client, loopback, file_cache>>
    /\ UNCHANGED <<config, history, token_cache, self_refresh_token, lock,
                   now, requests, frame, ctor>>

\* A provider that nobody calls.
IdleProvider ==
    /\ InitProvider
    /\ kind = "ClientCredentials"
    /\ token_cache = NoToken
    /\ self_refresh_token = None
    /\ max_retries = 0
    /\ skew_seconds = 0
    /\ ctor = NoCtor

InitHandle ==
    /\ IdleProvider
    /\ IdleTransport
    /\ IdleLoopback
    /\ IdleFileCache
    /\ handled \in [response : AllResponses, done : {FALSE},
                    parsed : {FALSE}, result : {NoValue},
                    error : {NoException}]

NextHandle == HandleOne

\* _handle_response() applied to one response.
SpecHandle == InitHandle /\ [][NextHandle]_vars

\* ---------------------------------------------------------- transport core

\* Retry configuration of AsyncBaseClient, times in milliseconds.
INITIAL_BACKOFF == 500
MAX_BACKOFF == 8000
BACKOFF_MULTIPLIER == 2

\* Values of random.random() * 0.5, in thousandths.
Jitters == {0, 498}

RECURSIVE Power(_, _)
Power(b, n) == IF n = 0 THEN 1 ELSE b * Power(b, n - 1)

Min(a, b) == IF a < b THEN a ELSE b

\* _calculate_backoff(attempt): min(initial * multiplier ** attempt, cap)
\* scaled by 0.5 + random.random() * 0.5.
calculate_backoff(attempt, jitter) ==
    (Min(INITIAL_BACKOFF * Power(BACKOFF_MULTIPLIER, attempt), MAX_BACKOFF)
     * (500 + jitter)) \div 1000

\* httpx.ConnectError and httpx.TimeoutException: no response was received.
TransportFailure(cls) == Exc(cls, "no response", NoInt, NoValue, NoInt, None)

\* The ways auth_provider.get_access_token() raises: AuthenticationError
\* for a rejected token request, the ServerError its own retries ended
\* with, the SpotifyError it made of a connection error, and the ValueError
\* of float(expires_in).
ProviderErrors == {"failed", "server_error", "connection_error", "value_error"}

\* The exception auth_provider.get_access_token() raises.
ProviderFailure(token) ==
    IF token = "server_error"
    THEN Exc("ServerError", "Unknown error", 500, NoValue, NoInt, None)
    ELSE IF token = "connection_error"
    THEN Exc("SpotifyError", "Connection error: no response", NoInt, NoValue,
             NoInt, "ConnectError")
    ELSE IF token = "value_error"
    THEN Exc("ValueError", "could not convert string to float", NoInt,
             NoValue, NoInt, None)
    ELSE Exc("AuthenticationError", "Token request failed", NoInt, NoValue,
             NoInt, None)

\* SpotifyError(f"Connection error: {e}") from e
ConnectionError(e) ==
    Exc("SpotifyError", "Connection error: no response", NoInt, NoValue,
        NoInt, e.cls)

\* The except clauses of request() with the classes of every error kind
\* retried instead.
CaughtClasses_All ==
    {"ConnectError", "TimeoutException", "RateLimitError", "ServerError",
     "BadRequestError", "AuthenticationError", "ForbiddenError",
     "NotFoundError", "SpotifyError"}

\* The except clauses of request() without the connection errors.
CaughtClasses_NoConnect == {"RateLimitError", "ServerError"}

\* The except clauses of request() without the one for ServerError.
CaughtClasses_NoServer == {"ConnectError", "TimeoutException", "RateLimitError"}

\* The exception classes the except clauses of request() catch.
CaughtClasses ==
    {"ConnectError", "TimeoutException", "RateLimitError", "ServerError"}

\* "attempt < retries" counted one short.
may_retry_OneShort(attempt, retries) == attempt + 1 < retries

\* if attempt < retries: sleep and continue
may_retry(attempt, retries) == attempt < retries

\* sleep_time = e.retry_after or self._calculate_backoff(attempt), in
\* milliseconds; every other caught class sleeps the backoff.
sleep_time(e, attempt, jitter) ==
    IF e.cls = "RateLimitError" /\ e.retry_after # 0
    THEN e.retry_after * 1000
    ELSE calculate_backoff(attempt, jitter)

\* request() wrapping whatever is left when the retries are used up.
exhausted_error_WrapAll(e) == ConnectionError(e)

\* What request() raises when no retry is left for the caught exception e:
\* "raise SpotifyError(...) from e" for the connection errors, "raise" for
\* RateLimitError and ServerError.
exhausted_error(e) ==
    IF e.cls \in {"ConnectError", "TimeoutException"}
    THEN ConnectionError(e)
    ELSE e

\* The failure kinds the retry policy applies to.
RetryableFailure(e) ==
    e.cls \in {"ConnectError", "TimeoutException", "RateLimitError",
               "ServerError"}

\* How _get_access_token() can go: the static token is returned, the
\* provider answers from its cache, fetches a token, or raises.
TokenOutcomes ==
    IF Truthy(transport._access_token)
    THEN {"static"}
    ELSE {"cached", "fetched"} \cup ProviderErrors

\* Responses the API gives to request(): a payload, no content, one of each
\* error class, and 429 with every Retry-After header.
TransportResponses ==
    {Response(sc, "{\"id\":\"x\"}", Absent) : sc \in {200, 204}}
    \cup {Response(sc, "{\"error\":{\"message\":\"m\"}}", Absent) :
              sc \in {400, 401, 403, 404, 418, 500}}
    \cup {Response(429, "{\"error\":{\"message\":\"m\"}}", h) :
              h \in RetryAfterHeaders}

\* What self._http_client.request(...) does: raises or answers.
NetOutcomes ==
    {[net |-> n, response |-> Response(0, "", Absent)] :
         n \in {"ConnectError", "TimeoutException"}}
    \cup {[net |-> "response", response |-> r] : r \in TransportResponses}

\* A new connection object owned by owner.
Connection(owner) == [owner |-> owner, closes |-> 0]

\* conns after connection id was closed once more.
CloseConnection(cs, id) == [cs EXCEPT ![id].closes = @ + 1]

\* The body of one iteration of "for attempt in range(retries + 1)" for the
\* exception e raised in the try block (NoException: the value v was
\* returned), and the raise after the loop.
request_iteration(c, e, v, jitter) ==
    IF e = NoException
    THEN [c EXCEPT !.pc = "returned", !.result = v]
    ELSE IF e.cls \notin CaughtClasses
    THEN [c EXCEPT !.pc = "raised", !.error = e]
    ELSE IF may_retry(c.attempt, c.retries)
    THEN LET slept == [c EXCEPT !.last_exception = e,
                                !.sleeps = Append(@, sleep_time(e, c.attempt,
                                                                jitter)),
                                !.attempt = @ + 1]
         IN  IF slept.attempt < c.retries + 1
             THEN slept
             ELSE [slept EXCEPT !.pc = "raised", !.error = e]
    ELSE [c EXCEPT !.last_exception = e, !.pc = "raised",
                   !.error = exhausted_error(e)]

\* request(method, path, max_retries=...) is called: retries is resolved and
\* the loop is entered.
RequestStart(max_retries_arg) ==
    /\ transport.cls = "AsyncBaseClient"
    /\ call.pc \in {"idle", "returned", "raised"}
    /\ transport.requests < MaxCalls
    /\ LET retries == IF max_retries_arg # NoInt THEN max_retries_arg
                      ELSE transport._max_retries
       IN  call' = [IdleCall EXCEPT !.pc = "attempt", !.retries = retries,
                                    !.posts_before = requests]
    /\ transport' = [transport EXCEPT !.requests = @ + 1]
    /\ UNCHANGED <<conns, auth_client, handled, loopback, file_cache>>
    /\ UNCHANGED <<config, history, token_cache, self_refresh_token, lock,
                   now, requests, frame, ctor>>

\* One attempt of request() in which _get_access_token() went the way
\* token says and gave bearer: the request is sent with it in the
\* Authorization header on the lazily created connection, the response is
\* handled, and the except clause that matches sleeps or raises.
AttemptBody(token, bearer, o, jitter) ==
    LET provider_opens == token \in {"fetched"} \cup ProviderErrors
                          /\ auth_client._client = 0
        conns1 == IF provider_opens
                  THEN Append(conns, Connection("provider"))
                  ELSE conns
        sent == token \notin ProviderErrors
        opens == sent /\ transport._client = 0
        conns2 == IF opens THEN Append(conns1, Connection("transport"))
                  ELSE conns1
        out == handle_response(o.response)
        e == IF ~sent THEN ProviderFailure(token)
             ELSE IF o.net # "response" THEN TransportFailure(o.net)
             ELSE out.error
        v == IF sent /\ o.net = "response" THEN out.result ELSE NoValue
        c == [call EXCEPT !.http_attempts = IF sent THEN @ + 1 ELSE @,
                          !.outcome =
                              IF sent
                              THEN Outcome(token, o.net, o.response)
                              ELSE Outcome(token, None, NoOutcome.response),
                          !.bearers = IF sent THEN Append(@, bearer) ELSE @,
                          !.only_retryable =
                              @ /\ sent /\ RetryableFailure(e)]
    IN  /\ call' = request_iteration(c, e, v, jitter)
        /\ conns' = conns2
        /\ auth_client' = IF provider_opens
                          THEN [auth_client EXCEPT !._client = Len(conns1)]
                          ELSE auth_client
        /\ transport' = IF opens
                        THEN [transport EXCEPT !._client = Len(conns2)]
                        ELSE transport

\* One attempt of request() with a static token or with a provider of
\* which only the outcome is looked at.
Attempt(token, o, jitter) ==
    /\ call.pc = "attempt"
    /\ token \in TokenOutcomes
    /\ AttemptBody(token,
                   IF token = "static" THEN transport._access_token
                   ELSE CHOOSE a \in AccessTokens : TRUE,
                   o, jitter)
    /\ UNCHANGED <<handled, loopback, file_cache>>
    /\ UNCHANGED <<config, history, token_cache, self_refresh_token, lock,
                   now, requests, frame, ctor>>

\* auth_provider.close(): "if self._client is not None and
\* self._owns_client" without the ownership test.
provider_close_Always(ac, cs) ==
    IF ac._client # 0
    THEN [auth_client |-> [ac EXCEPT !._client = 0, !.closes = @ + 1],
          conns |-> CloseConnection(cs, ac._client)]
    ELSE [auth_client |-> [ac EXCEPT !.closes = @ + 1], conns |-> cs]

\* auth_provider.close(): the provider closes the connection it holds when
\* it owns it.
provider_close(ac, cs) ==
    IF ac._client # 0 /\ ac._owns_client
    THEN [auth_client |-> [ac EXCEPT !._client = 0, !.closes = @ + 1],
          conns |-> CloseConnection(cs, ac._client)]
    ELSE [auth_client |-> [ac EXCEPT !.closes = @ + 1], conns |-> cs]

\* close() leaving self._client as it was.
transport_close_KeepClient(tr, ac, cs) ==
    LET cs1 == IF tr._client # 0 THEN CloseConnection(cs, tr._client)
               ELSE cs
        calls_provider == tr._auth_provider # None /\ ac.has_close
        p == IF calls_provider THEN provider_close(ac, cs1)
             ELSE [auth_client |-> ac, conns |-> cs1]
    IN  [transport |-> [tr EXCEPT !.closes = @ + 1],
         auth_client |-> p.auth_client, conns |-> p.conns]

\* AsyncBaseClient.close(): the connection is closed and forgotten, then
\* the provider's close() is called when it has one.
transport_close(tr, ac, cs) ==
    LET cs1 == IF tr._client # 0 THEN CloseConnection(cs, tr._client)
               ELSE cs
        calls_provider == tr._auth_provider # None /\ ac.has_close
        p == IF calls_provider THEN provider_close(ac, cs1)
             ELSE [auth_client |-> ac, conns |-> cs1]
    IN  [transport |-> [tr EXCEPT !._client = 0, !.closes = @ + 1],
         auth_client |-> p.auth_client, conns |-> p.conns]

\* await client.close()
Close ==
    /\ transport.cls = "AsyncBaseClient"
    /\ call.pc \in {"idle", "returned", "raised"}
    /\ transport.closes < MaxCloses
    /\ LET out == transport_close(transport, auth_client, conns)
       IN  /\ transport' = out.transport
           /\ auth_client' = out.auth_client
           /\ conns' = out.conns
    /\ UNCHANGED <<call, handled, loopback, file_cache>>
    /\ UNCHANGED <<config, history, token_cache, self_refresh_token, lock,
                   now, requests, frame, ctor>>

\* auth_provider.close() called by the caller itself.
ProviderClose ==
    /\ transport._auth_provider # None
    /\ auth_client.has_close
    /\ call.pc \in {"idle", "returned", "raised"}
    /\ auth_client.closes < MaxCloses
    /\ LET out == provider_close(auth_client, conns)
       IN  /\ auth_client' = out.auth_client
           /\ conns' = out.conns
    /\ UNCHANGED <<transport, call, handled, loopback, file_cache>>
    /\ UNCHANGED <<config, history, token_cache, self_refresh_token, lock,
                   now, requests, frame, ctor>>

\* "async with client:" is entered: __aenter__ returns self.
AEnter ==
    /\ transport.cls = "AsyncBaseClient"
    /\ transport.scope = "none"
    /\ call.pc = "idle"
    /\ transport' = [transport EXCEPT !.scope = "inside"]
    /\ UNCHANGED <<call, conns, auth_client, handled, loopback, file_cache>>
    /\ UNCHANGED <<config, history, token_cache, self_refresh_token, lock,
                   now, requests, frame, ctor>>

\* The "async with" block is left, by its end or by the exception of the
\* last request: __aexit__(*args) awaits close().
AExit ==
    /\ transport.scope = "inside"
    /\ call.pc \in {"idle", "returned", "raised"}
    /\ LET out == transport_close(transport, auth_client, conns)
       IN  /\ transport' = [out.transport EXCEPT !.scope = "exited"]
           /\ auth_client' = out.auth_client
           /\ conns' = out.conns
    /\ UNCHANGED <<call, handled, loopback, file_cache>>
    /\ UNCHANGED <<config, history, token_cache, self_refresh_token, lock,
                   now, requests, frame, ctor>>

\* Transports as the constructor leaves them: exactly one bearer source,
\* no connection yet.
Transports ==
    {[NoTransport EXCEPT !.cls = "AsyncBaseClient", !._access_token = a,
                         !._auth_provider = p, !._max_retries = k] :
         a \in {None, "token"}, p \in {None, "provider"},
         k \in 0..MaxRetriesChoice}

\* max_retries arguments of request(): None or an override.
RetriesArgs == {NoInt} \cup 0..MaxRetriesChoice

\* A transport with a static token, or with a provider that was given the
\* caller's connection or creates its own when it first needs one.
InitTransport ==
    /\ IdleProvider
    /\ IdleHandle
    /\ IdleLoopback
    /\ IdleFileCache
    /\ transport \in Transports
    /\ Truthy(transport._access_token) # (transport._auth_provider # None)
    /\ call = IdleCall
    /\ \/ /\ transport._auth_provider = None
          /\ auth_client = NoAuthClient
          /\ conns = <<>>
       \/ /\ transport._auth_provider # None
          /\ \E has_close \in BOOLEAN :
                \/ /\ conns = <<Connection("caller")>>
                   /\ auth_client = [_client |-> 1, _owns_client |-> FALSE,
                                     has_close |-> has_close, closes |-> 0]
                \/ /\ conns = <<>>
                   /\ auth_client = [_client |-> 0, _owns_client |-> TRUE,
                                     has_close |-> has_close, closes |-> 0]

\* One attempt, whatever the provider, the network and random() do.
AnyAttempt ==
    \E token \in {"static", "cached", "fetched"} \cup ProviderErrors,
       o \in NetOutcomes, jitter \in Jitters : Attempt(token, o, jitter)

NextTransport ==
    \/ \E a \in RetriesArgs : RequestStart(a)
    \/ AnyAttempt

\* One caller makes requests on a transport, one after the other.
SpecTransport == InitTransport /\ [][NextTransport]_vars

\* A transport constructed with max_retries=0.
InitClose ==
    /\ InitTransport
    /\ transport._max_retries = 0

NextClose ==
    \/ RequestStart(NoInt)
    \/ AnyAttempt
    \/ Close
    \/ ProviderClose
    \/ AEnter
    \/ AExit

\* One caller uses a transport and lets go of it: requests, close() and
\* "async with", one after the other.
SpecClose == InitClose /\ [][NextClose]_vars

\* ------------------------------------------------------------ loopback flow

\* Values of the query parameters a callback may carry.
ParamValues ==
    [error |-> {"access_denied"}, state |-> {"", "ok", "tk"},
     code |-> {"", "abc123"}]

\* A name=value pair of the query of a callback URL.
Params ==
    UNION {{<<k, v>> : v \in ParamValues[k]} : k \in DOMAIN ParamValues}

\* The query of a callback URL: its name=value pairs in order.
Queries == UNION {[1..n -> Params] : n \in 0..MaxParams}

\* _first_value(parse_qs(query, keep_blank_values=True), key)
first_value(query, key) ==
    LET at == {i \in DOMAIN query : query[i][1] = key}
    IN  IF at = {} THEN None
        ELSE query[CHOOSE i \in at : \A j \in at : i <= j][2]

AuthenticationError(message) == Failure("AuthenticationError", message)

\* parse_response_url() without the comparison of the states.
parse_response_url_NoStateCheck(query, expected_state) ==
    IF first_value(query, "error") # None
    THEN [code |-> None,
          error |-> AuthenticationError("Authorization failed")]
    ELSE IF ~Truthy(first_value(query, "code"))
    THEN [code |-> None,
          error |-> AuthenticationError("Authorization response missing code")]
    ELSE [code |-> first_value(query, "code"), error |-> NoFailure]

\* AuthorizationCode.parse_response_url(url, expected_state=...)
parse_response_url(query, expected_state) ==
    IF first_value(query, "error") # None
    THEN [code |-> None,
          error |-> AuthenticationError("Authorization failed")]
    ELSE IF expected_state # None
            /\ first_value(query, "state") # expected_state
    THEN [code |-> None,
          error |-> AuthenticationError("State mismatch")]
    ELSE IF ~Truthy(first_value(query, "code"))
    THEN [code |-> None,
          error |-> AuthenticationError("Authorization response missing code")]
    ELSE [code |-> first_value(query, "code"), error |-> NoFailure]

\* The finally block of _wait_for_local_callback run only when nothing
\* was raised.
teardown_OnSuccessOnly(lb) ==
    IF lb.pending = NoFailure
    THEN [lb EXCEPT !.listener = "stopped", !.socket = "closed"]
    ELSE lb

\* The finally block of _wait_for_local_callback: server.shutdown(),
\* server.server_close(), thread.join().
teardown(lb) == [lb EXCEPT !.listener = "stopped", !.socket = "closed"]

\* secrets.token_urlsafe(24)
token_urlsafe == "tk"

\* Nothing of the provider or the transport moves during the loopback flow.
LoopbackFrame ==
    /\ UNCHANGED <<transport, call, conns, auth_client, handled, file_cache>>
    /\ UNCHANGED <<config, history, token_cache, self_refresh_token, lock,
                   now, requests, frame, ctor>>

\* authorize_local(auth, state=..., open_browser=...,
\* authorization_url_handler=...) up to the call of
\* _wait_for_local_callback: the arguments and the redirect URI are checked.
AuthorizeLocal(state, open_browser, handler, loopback_redirect) ==
    /\ loopback.op = "none"
    /\ loopback' =
           IF ~loopback_redirect \/ (~open_browser /\ ~handler)
           THEN [loopback EXCEPT !.op = "authorize_local", !.pc = "raised",
                                 !.error = Failure("ValueError",
                                                   "invalid arguments")]
           ELSE [loopback EXCEPT !.op = "authorize_local", !.pc = "start",
                                 !.open_browser = open_browser,
                                 !.handler = handler,
                                 !.expected_state = PyOr(state, token_urlsafe)]
    /\ LoopbackFrame

\* The socket is bound but serve_forever is not started before the URL is
\* handed out.
StartListener_NotServing(outcome) ==
    /\ loopback.pc = "start"
    /\ loopback' =
           IF outcome = "bind_error"
           THEN [loopback EXCEPT !.pc = "raised",
                                 !.error = Failure("OSError", "bind")]
           ELSE IF outcome = "thread_error"
           THEN [loopback EXCEPT !.pc = "raised", !.socket = "open",
                                 !.error = Failure("RuntimeError", "thread")]
           ELSE [loopback EXCEPT !.pc = "handler", !.socket = "open",
                                 !.listener = "stopped"]
    /\ LoopbackFrame

\* _LocalCallbackServer((host, port), ...) binds the socket and
\* thread.start() starts serve_forever; either may fail.
StartListener(outcome) ==
    /\ loopback.pc = "start"
    /\ loopback' =
           IF outcome = "bind_error"
           THEN [loopback EXCEPT !.pc = "raised",
                                 !.error = Failure("OSError", "bind")]
           ELSE IF outcome = "thread_error"
           THEN [loopback EXCEPT !.pc = "raised", !.socket = "open",
                                 !.error = Failure("RuntimeError", "thread")]
           ELSE [loopback EXCEPT !.pc = "handler", !.socket = "open",
                                 !.listener = "serving"]
    /\ LoopbackFrame

\* authorization_url_handler(authorization_url), when given: returns or
\* raises.
CallHandler(raises) ==
    /\ loopback.pc = "handler"
    /\ loopback' =
           IF loopback.handler /\ raises
           THEN [loopback EXCEPT !.pc = "finally",
                                 !.pending = Failure("HandlerError", "handler")]
           ELSE [loopback EXCEPT !.pc = "browser"]
    /\ LoopbackFrame

\* webbrowser.open(authorization_url), when open_browser is set.
OpenBrowser(opened) ==
    /\ loopback.pc = "browser"
    /\ loopback' =
           IF loopback.open_browser /\ ~opened /\ ~loopback.handler
           THEN [loopback EXCEPT !.pc = "finally",
                     !.pending = AuthenticationError("Could not open browser")]
           ELSE [loopback EXCEPT !.pc = "wait"]
    /\ LoopbackFrame

\* do_GET that sets the event for a request to any path.
DoGet_EventOnAnyPath(expected_path, query) ==
    /\ loopback.listener = "serving"
    /\ loopback.gets < MaxGets
    /\ loopback' =
           IF expected_path
           THEN [loopback EXCEPT !.gets = @ + 1, !.served = @ + 1,
                                 !.callback_path = query,
                                 !.has_callback = TRUE, !.received = TRUE]
           ELSE [loopback EXCEPT !.gets = @ + 1, !.callback_path = query,
                                 !.has_callback = TRUE, !.received = TRUE]
    /\ LoopbackFrame

\* _LocalCallbackHandler.do_GET on the listener thread, which serves
\* requests one after the other until server.shutdown(): a request to
\* another path is answered 404; one to the expected path is captured, sets
\* the event and is answered 200 with the static HTML.
DoGet(expected_path, query) ==
    /\ loopback.listener = "serving"
    /\ loopback.gets < MaxGets
    /\ loopback' =
           IF expected_path
           THEN [loopback EXCEPT !.gets = @ + 1, !.served = @ + 1,
                                 !.callback_path = query,
                                 !.has_callback = TRUE, !.received = TRUE]
           ELSE [loopback EXCEPT !.gets = @ + 1]
    /\ LoopbackFrame

\* server.received_event.wait(timeout=timeout) returns: the event was set,
\* or the timeout elapsed.
Wait ==
    /\ loopback.pc = "wait"
    /\ loopback' =
           IF ~loopback.received \/ ~loopback.has_callback
           THEN [loopback EXCEPT !.pc = "finally",
                     !.pending = AuthenticationError("Timed out")]
           ELSE [loopback EXCEPT !.pc = "finally"]
    /\ LoopbackFrame

\* "return server.callback_path" or the pending exception meets the
\* finally block: the block runs, then _wait_for_local_callback raises what
\* is pending or hands the callback path to authorize_local.
Finally ==
    /\ loopback.pc = "finally"
    /\ LET lb == teardown(loopback)
       IN  loopback' =
               IF lb.pending # NoFailure
               THEN [lb EXCEPT !.pc = "raised", !.error = lb.pending]
               ELSE [lb EXCEPT !.pc = "parse", !.url = lb.callback_path]
    /\ LoopbackFrame

\* code = auth.parse_response_url(callback_path,
\*                                expected_state=resolved_state)
ParseCallback ==
    /\ loopback.pc = "parse"
    /\ LET out == parse_response_url(loopback.url, loopback.expected_state)
       IN  loopback' =
               IF out.error # NoFailure
               THEN [loopback EXCEPT !.pc = "raised", !.error = out.error]
               ELSE [loopback EXCEPT !.pc = "exchange", !.code = out.code]
    /\ LoopbackFrame

\* auth.exchange_code(code): the token endpoint is asked and answers with a
\* token or not.
ExchangeCallbackCode(ok) ==
    /\ loopback.pc = "exchange"
    /\ loopback' =
           IF ~Truthy(loopback.code)
           THEN [loopback EXCEPT !.pc = "raised",
                     !.error = Failure("ValueError", "code must not be empty")]
           ELSE IF ok
           THEN [loopback EXCEPT !.pc = "returned", !.result = "TokenInfo",
                                 !.token_requests = @ + 1]
           ELSE [loopback EXCEPT !.pc = "raised", !.token_requests = @ + 1,
                     !.error = AuthenticationError("Token request failed")]
    /\ LoopbackFrame

\* AuthorizationCode.parse_response_url(url, expected_state=...) called by
\* the application itself.
ParseResponseUrl(query, expected_state) ==
    /\ loopback.op = "none"
    /\ LET out == parse_response_url(query, expected_state)
       IN  loopback' =
               [loopback EXCEPT !.op = "parse_response_url",
                                !.url = query,
                                !.expected_state = expected_state,
                                !.code = out.code, !.error = out.error,
                                !.pc = IF out.error # NoFailure THEN "raised"
                                       ELSE "returned",
                                !.result = out.code]
    /\ LoopbackFrame

InitLoopback ==
    /\ IdleProvider
    /\ IdleTransport
    /\ IdleHandle
    /\ IdleFileCache
    /\ loopback = NoLoopback

NextLoopback ==
    \/ \E state \in {None, "", "ok"}, open_browser \in BOOLEAN,
          handler \in BOOLEAN, loopback_redirect \in BOOLEAN :
           AuthorizeLocal(state, open_browser, handler, loopback_redirect)
    \/ \E outcome \in {"ok", "bind_error", "thread_error"} :
           StartListener(outcome)
    \/ \E raises \in BOOLEAN : CallHandler(raises)
    \/ \E opened \in BOOLEAN : OpenBrowser(opened)
    \/ \E query \in Queries : DoGet(TRUE, query)
    \/ DoGet(FALSE, <<>>)
    \/ Wait
    \/ Finally
    \/ ParseCallback
    \/ \E ok \in BOOLEAN : ExchangeCallbackCode(ok)
    \/ \E query \in Queries, expected_state \in {None, "", "ok"} :
           ParseResponseUrl(query, expected_state)

\* One authorize_local() call with its listener thread, or one direct
\* parse_response_url() call.
SpecLoopback == InitLoopback /\ [][NextLoopback]_vars

\* --------------------------------------------------------------- file cache

\* The integer 10**400 as JSON writes it, with its 401 digits.
BigInt == "10**400"

\* Strings float() accepts.
NumericStrings == {"12.5"}

\* json.loads of one value: null is None, a string is a str, a number
\* with a fraction is a float, the literals NaN and Infinity are floats,
\* any other number is an int, an array is a list.
loads_value(js) ==
    IF js.t = "null" THEN PyNone
    ELSE IF js.t = "string" THEN Py("str", js.v)
    ELSE IF js.t = "array" THEN Py("list", js.v)
    ELSE IF js.v = "NaN" THEN Py("float", "nan")
    ELSE IF js.v = "Infinity" THEN Py("float", "inf")
    ELSE IF js.v \in {"1700000000.0", "123.0"} THEN Py("float", js.v)
    ELSE Py("int", js.v)

\* json.dumps of one value: None is null, a str is a string, a float is
\* written with repr() except nan and inf, written NaN and Infinity.
dumps_value(py) ==
    IF py.t = "NoneType" THEN Js("null", "null")
    ELSE IF py.t = "str" THEN Js("string", py.v)
    ELSE IF py.t = "list" THEN Js("array", py.v)
    ELSE IF py.v = "nan" THEN Js("number", "NaN")
    ELSE IF py.v = "inf" THEN Js("number", "Infinity")
    ELSE Js("number", py.v)

\* payload.get(key) on the dict json.loads made of a JSON object.
payload_get(file, key) ==
    IF file[key].t = Absent THEN PyNone ELSE loads_value(file[key])

\* float(x): the float, or the exception float() raises.
float(x) ==
    IF x.t = "float" THEN [value |-> x, error |-> None]
    ELSE IF x.t = "int"
    THEN IF x.v = BigInt
         THEN [value |-> PyNone, error |-> "OverflowError"]
         ELSE [value |-> Py("float", x.v \o ".0"), error |-> None]
    ELSE IF x.t = "str"
    THEN IF x.v \in NumericStrings
         THEN [value |-> Py("float", x.v), error |-> None]
         ELSE [value |-> PyNone, error |-> "ValueError"]
    ELSE [value |-> PyNone, error |-> "TypeError"]

\* What a FileTokenCache call gives its caller.
Got(returned, result, error) ==
    [returned |-> returned, result |-> result, error |-> error]

\* refresh_token and scope of get(): a value that is neither None nor a
\* str becomes None.
optional_str(x) == IF x.t \in {"NoneType", "str"} THEN x ELSE PyNone

\* FileTokenCache.get()
get(file) ==
    IF file.state \in {"missing", "unreadable", "malformed"}
    THEN Got("None", NoCached, None)
    ELSE IF file.state = "undecodable"
    THEN Got("raised", NoCached, "UnicodeDecodeError")
    ELSE IF file.shape # "object"
    THEN Got("raised", NoCached, "AttributeError")
    ELSE LET access_token == payload_get(file, "access_token")
             expires_at == payload_get(file, "expires_at")
             expires_at_value == float(expires_at)
         IN  IF access_token.t # "str" THEN Got("None", NoCached, None)
             ELSE IF expires_at_value.error \in {"TypeError", "ValueError"}
             THEN Got("None", NoCached, None)
             ELSE IF expires_at_value.error # None
             THEN Got("raised", NoCached, expires_at_value.error)
             ELSE Got("TokenInfo",
                      TokenInfo(access_token, expires_at_value.value,
                                optional_str(payload_get(file,
                                                         "refresh_token")),
                                optional_str(payload_get(file, "scope"))),
                      None)

\* A payload written without the refresh token.
payload_NoRefreshToken(token) ==
    File("text", "object", dumps_value(token.access_token),
         dumps_value(token.expires_at), JsAbsent, dumps_value(token.scope))

\* The file FileTokenCache.set(token) writes.
payload(token) ==
    File("text", "object", dumps_value(token.access_token),
         dumps_value(token.expires_at), dumps_value(token.refresh_token),
         dumps_value(token.scope))

\* An empty file: what is left when write_text() fails after opening.
Truncated == FileWithout("malformed", None)

\* FileTokenCache.set(token): the file after the call and the exception it
\* raises, for each way the file system may answer.
set(file, token, outcome) ==
    IF outcome = "mkdir_error"
    THEN [file |-> file, error |-> "OSError"]
    ELSE IF outcome = "write_error"
    THEN [file |-> Truncated, error |-> "OSError"]
    ELSE [file |-> payload(token), error |-> None]

\* a == b for two Python values that are not the same object: numbers are
\* compared by value and nan equals nothing.
py_eq(a, b) ==
    IF a.t \in {"float", "int"} /\ b.t \in {"float", "int"}
    THEN /\ a.v # "nan"
         /\ float(a).value = float(b).value
    ELSE a = b

\* TokenInfo.__eq__ of the dataclass: the tuples of fields are equal.
dataclass_eq(a, b) ==
    /\ py_eq(a.access_token, b.access_token)
    /\ py_eq(a.expires_at, b.expires_at)
    /\ py_eq(a.refresh_token, b.refresh_token)
    /\ py_eq(a.scope, b.scope)

\* Tokens an application stores.
CacheTokens ==
    {TokenInfo(Py("str", a), e, r, s) :
         a \in {"a", ""},
         e \in {Py("float", "1700000000.0"), Py("float", "nan"),
                Py("float", "inf"), Py("int", "1700000000")},
         r \in {PyNone, Py("str", "r")},
         s \in {PyNone, Py("str", "s")}}

\* Files a cache may find at its path: none, one that cannot be read, bytes
\* that are not UTF-8, text that is not JSON, and JSON documents of every
\* shape, the objects with keys missing or of any type.
Files ==
    {FileWithout(st, None) :
         st \in {"missing", "unreadable", "undecodable", "malformed"}}
    \cup {FileWithout("text", sh) :
              sh \in {"array", "null", "number", "string"}}
    \cup {File("text", "object", a, e, r, s) :
              a \in {JsAbsent, Js("null", "null"), Js("string", "token-only"),
                     Js("number", "1")},
              e \in {JsAbsent, Js("null", "null"),
                     Js("number", "123.0"), Js("number", "123"),
                     Js("number", BigInt), Js("number", "NaN"),
                     Js("string", "12.5"), Js("string", "abc"),
                     Js("array", "[]")},
              r \in {JsAbsent, Js("null", "null"), Js("string", "r"),
                     Js("number", "1")},
              s \in {JsAbsent, Js("string", "s"), Js("array", "[]")}}

\* Nothing but the file cache moves.
FileCacheFrame ==
    /\ UNCHANGED <<transport, call, conns, auth_client, handled, loopback>>
    /\ UNCHANGED <<config, history, token_cache, self_refresh_token, lock,
                   now, requests, frame, ctor>>

\* A call of FileTokenCache.get().
FileCacheGet ==
    /\ LET got == get(file_cache.file)
       IN  file_cache' = [file_cache EXCEPT !.op = "get",
                                            !.returned = got.returned,
                                            !.result = got.result,
                                            !.error = got.error]
    /\ FileCacheFrame

\* A call of FileTokenCache.set(token); a failing os.chmod is ignored.
FileCacheSet(token, outcome) ==
    /\ LET out == set(file_cache.file, token, outcome)
       IN  file_cache' =
               [file |-> out.file, op |-> "set",
                returned |-> IF out.error = None THEN "None" ELSE "raised",
                result |-> NoCached, error |-> out.error,
                written |-> IF out.error = None THEN TRUE
                            ELSE IF out.file = file_cache.file
                            THEN file_cache.written
                            ELSE FALSE,
                token |-> IF out.error = None THEN token
                          ELSE IF out.file = file_cache.file
                          THEN file_cache.token
                          ELSE NoCached]
    /\ FileCacheFrame

InitFileCache ==
    /\ IdleProvider
    /\ IdleTransport
    /\ IdleHandle
    /\ IdleLoopback
    /\ \E file \in Files : file_cache = [NoFileCache EXCEPT !.file = file]

NextFileCache ==
    \/ FileCacheGet
    \/ \E token \in CacheTokens,
          outcome \in {"ok", "chmod_error", "mkdir_error", "write_error"} :
           FileCacheSet(token, outcome)

\* One FileTokenCache on a path where any file may lie.
SpecFileCache == InitFileCache /\ [][NextFileCache]_vars

\* ----------------------------------------------------- transport and provider

\* The thread on which request() calls the provider.
Caller == 1

\* How the get_access_token() call of frame f went, as _get_access_token()
\* sees it.
TokenOutcomeOf(f) ==
    IF f.path \in {"fast", "recheck"} THEN "cached"
    ELSE IF f.path = "fetch" THEN "fetched"
    ELSE IF f.result = "ServerError" THEN "server_error"
    ELSE IF f.result = "SpotifyError" THEN "connection_error"
    ELSE IF f.result = "ValueError" THEN "value_error"
    ELSE "failed"

\* The access token resolved once per request() and used again for every
\* retry.
bearer_of_FirstAttempt(c, f) ==
    IF c.bearers # <<>> THEN c.bearers[1] ELSE f.result

\* access_token = await self._get_access_token(): the value the provider
\* call of this attempt returned.
bearer_of(c, f) == f.result

\* request() is inside an attempt: it awaits
\* self._auth_provider.get_access_token(), whose steps run on its thread.
AwaitProvider == call.pc = "attempt"

\* The rest of the attempt once the provider call has returned or raised.
ProviderAttempt(o, jitter) ==
    /\ call.pc = "attempt"
    /\ frame[Caller].pc = "returned"
    /\ AttemptBody(TokenOutcomeOf(frame[Caller]),
                   bearer_of(call, frame[Caller]), o, jitter)
    /\ frame' = [frame EXCEPT ![Caller] = IdleFrame]
    /\ UNCHANGED <<handled, loopback, file_cache>>
    /\ UNCHANGED <<config, history, token_cache, self_refresh_token, lock,
                   now, requests, ctor>>

\* What the API answers in the runs with a provider: a payload, an error of
\* each retried class and one that is not retried, or no answer.
BearerOutcomes ==
    {o \in NetOutcomes :
         \/ o.net = "ConnectError"
         \/ /\ o.net = "response"
            /\ o.response.status \in {200, 401, 429, 500}
            /\ o.response.retry_after = Absent}

\* A transport constructed with a provider that creates its own connection;
\* the provider is in any state InitProvider allows.
InitBearer ==
    /\ InitProvider
    /\ ctor = NoCtor
    /\ IdleHandle
    /\ IdleLoopback
    /\ IdleFileCache
    /\ transport \in Transports
    /\ transport._access_token = None
    /\ transport._auth_provider # None
    /\ call = IdleCall
    /\ conns = <<>>
    /\ auth_client = [_client |-> 0, _owns_client |-> TRUE,
                      has_close |-> TRUE, closes |-> 0]

NextBearer ==
    \/ RequestStart(NoInt)
    \/ AwaitProvider /\ GatFastPath(Caller)
    \/ AwaitProvider /\ GatLocked(Caller)
    \/ AwaitProvider /\ GatRefresh(Caller)
    \/ AwaitProvider /\ Receive(Caller)
    \/ AwaitProvider /\ SetRefresh(Caller)
    \/ \E o \in BearerOutcomes, jitter \in Jitters : ProviderAttempt(o, jitter)
    \/ Tick

\* request() calls on a transport whose provider is modelled step by step,
\* with time passing between the steps.
SpecBearer == InitBearer /\ [][NextBearer]_vars

\* An AuthorizationCode provider constructed over an empty cache: every
\* token its cache holds later was stored by one of its own calls.
InitFresh ==
    /\ Init
    /\ kind = "AuthorizationCode"
    /\ token_cache = NoToken

SpecFresh == InitFresh /\ [][Next]_vars

\* ------------------------------------------------------------------ claims

\* A get_access_token() call of thread t has ended after it found the cache
\* stale on its first read.
StaleCallEnded(t) ==
    /\ frame[t].pc = "returned"
    /\ frame[t].op = "get_access_token"
    /\ frame[t].path # "fast"

C2_MutualExclusion ==
    Cardinality({t \in Threads : frame[t].pc = "await"}) <= 1

\* C3: whenever the cache holds a present token that is not expired under the
\* skew, a caller that starts get_access_token() can take its step at once,
\* whoever holds the lock, and that step returns the cached token and leaves
\* the lock as it was.
C3_LockFreeFastPath ==
    \A t \in Threads :
        (frame[t].pc = "idle" /\ CacheUsable(token_cache)) =>
            ENABLED (/\ GatFastPath(t)
                     /\ frame'[t].pc = "returned"
                     /\ frame'[t].result = token_cache.access_token
                     /\ lock' = lock)

\* A caller has returned a cached token through the fast path while another
\* caller holds the lock with its token request in flight.
C3_Witness ==
    \E t, u \in Threads :
        /\ frame[t].pc = "returned"
        /\ frame[t].op = "get_access_token"
        /\ frame[t].path = "fast"
        /\ lock = u
        /\ frame[u].pc = "await"

\* The cache holds a valid token that is not expired under the skew.
ValidCache ==
    /\ token_cache # NoToken
    /\ Truthy(token_cache.access_token)
    /\ now < token_cache.expires_at - skew_seconds

\* C4: while the cache holds a valid non-expired token, each
\* get_access_token() call returns in its first step with the cached
\* access-token string, sends no request and leaves the cache unchanged.
C4_IdempotentFastPath ==
    [][\A t \in Threads :
          (/\ ValidCache
           /\ frame[t].pc = "idle"
           /\ frame'[t].op = "get_access_token") =>
              /\ frame'[t].pc = "returned"
              /\ frame'[t].result = token_cache.access_token
              /\ frame'[t].call_requests = 0
              /\ requests' = requests
              /\ token_cache' = token_cache]_vars

\* After a token was fetched, a later call returned it from the cache.
C4_Witness ==
    /\ ValidCache
    /\ requests = 1
    /\ frame[1].pc = "returned"
    /\ frame[1].op = "get_access_token"
    /\ frame[1].path = "fast"
    /\ frame[1].result = "A1"

\* A get_access_token() call of an AuthorizationCode provider has returned
\* the token of a refresh.
RefreshEnded(t) ==
    /\ kind = "AuthorizationCode"
    /\ frame[t].pc = "returned"
    /\ frame[t].op = "get_access_token"
    /\ frame[t].path = "fetch"

\* C5: when get_access_token() has refreshed with refresh token R and the
\* response omitted refresh_token, the call returned the new access token and
\* the cached TokenInfo and the provider's _refresh_token both hold R.
C5_RefreshTokenRetention ==
    \A t \in Threads :
        (RefreshEnded(t) /\ frame[t].response.body.refresh_token = Absent) =>
            /\ frame[t].result = frame[t].response.body.access_token
            /\ frame[t].fallback # None
            /\ token_cache.refresh_token = frame[t].fallback
            /\ self_refresh_token = frame[t].fallback

\* A refresh with the cached refresh token R0 was answered without a
\* refresh_token field.
C5_Witness ==
    /\ RefreshEnded(1)
    /\ frame[1].response.body.refresh_token = Absent
    /\ frame[1].fallback = "R0"
    /\ frame[1].result = "A1"
    /\ token_cache.refresh_token = "R0"

\* C6 as stated: after a successful refresh the provider and the cache hold
\* a refresh token, the server's new one if the response supplied one and
\* the prior one otherwise, whatever the refresh_token field of the response
\* held (a new value, nothing, or no value).
C6_RefreshTokenNeverLost ==
    \A t \in Threads :
        RefreshEnded(t) =>
            LET sent == frame[t].response.body.refresh_token
                kept == IF sent \in RefreshTokens
                        THEN sent ELSE frame[t].fallback
            IN /\ kept # None
               /\ token_cache.refresh_token = kept
               /\ self_refresh_token = kept

\* C7: a get_access_token() call of an AuthorizationCode provider that is
\* past the fast path, with no usable cached token and no refresh token in
\* the cache or in the provider, ends by raising AuthenticationError and
\* sends no request.
C7_NoRefreshTokenFails ==
    [][\A t \in Threads :
          (/\ kind = "AuthorizationCode"
           /\ frame[t].pc \in {"gat_lock", "gat_refresh"}
           /\ ~ValidCache
           /\ token_cache.refresh_token = None
           /\ self_refresh_token = None
           /\ frame'[t].pc \notin {"gat_lock", "gat_refresh"}) =>
              /\ frame'[t].pc = "returned"
              /\ frame'[t].path = "raise"
              /\ frame'[t].result = "AuthenticationError"
              /\ frame'[t].call_requests = 0
              /\ requests' = requests]_vars

\* Such a call has raised and no request was ever sent.
C7_Witness ==
    /\ kind = "AuthorizationCode"
    /\ frame[1].pc = "returned"
    /\ frame[1].op = "get_access_token"
    /\ frame[1].result = "AuthenticationError"
    /\ frame[1].call_requests = 0
    /\ requests = 0
    /\ token_cache.refresh_token = None
    /\ self_refresh_token = None

\* A 4xx response, a successful one without access_token or expires_in, or,
\* for exchange_code, a successful one without a refresh token.
NonRetryableAnswer(r, op) ==
    \/ r.status >= 400 /\ r.status < 500
    \/ /\ r.status = 200
       /\ \/ r.body.access_token = Absent
          \/ r.body.expires_in_kind = "absent"
          \/ op = "exchange_code" /\ r.body.refresh_token \in {Absent, Null}

RetryableAnswer(r) == r = ConnectFailure \/ r.status >= 500

SuppliedToken == Truthy(ctor.access_token)

SuppliedProvider ==
    \/ ctor.auth_provider # None
    \/ Truthy(ctor.client_id)
    \/ Truthy(ctor.client_secret)

\* C10: a constructor call that supplies neither or both of a static token
\* and a credential provider never yields a client, it raises ValueError;
\* and every constructed transport keeps exactly one bearer source.
C10_ExactlyOneBearerSource ==
    /\ (ctor.outcome # "pending" /\ ctor.cls # "none"
           /\ (SuppliedToken <=> SuppliedProvider)) =>
           ctor.outcome = "ValueError"
    /\ ctor.outcome = "constructed" =>
           (Truthy(ctor.self_access_token) <=> ctor.self_auth_provider = None)

\* The transport was called with both a token and a provider and raised.
C10_Witness ==
    /\ ctor.cls = "AsyncBaseClient"
    /\ ctor.access_token = "value"
    /\ ctor.auth_provider = "provider"
    /\ ctor.outcome = "ValueError"

\* The current request() call has ended.
CallEnded == call.pc \in {"returned", "raised"}

\* C11 as stated: when every attempt of a request() with max retries k >= 0
\* yielded a retryable failure, the call made exactly k+1 HTTP attempts and
\* raised the last error it encountered; it returned no result.
C11_RetryExhaustion_AsStated ==
    /\ call.only_retryable => call.http_attempts <= call.retries + 1
    /\ CallEnded /\ call.only_retryable =>
           /\ call.pc = "raised"
           /\ call.result = NoValue
           /\ call.http_attempts = call.retries + 1
           /\ call.error = call.last_exception

\* C11: when every attempt of a request() with max retries k >= 0 yielded
\* a retryable failure (ServerError, RateLimitError, connect or timeout
\* error), the call made exactly k+1 HTTP attempts, returned no result and
\* raised: the last RateLimitError or ServerError itself, or, when the last
\* failure was a connect or timeout error, a SpotifyError whose cause it is.
C11_RetryExhaustion ==
    /\ call.only_retryable => call.http_attempts <= call.retries + 1
    /\ CallEnded /\ call.only_retryable =>
           /\ call.pc = "raised"
           /\ call.result = NoValue
           /\ call.http_attempts = call.retries + 1
           /\ IF call.last_exception.cls \in {"RateLimitError", "ServerError"}
              THEN call.error = call.last_exception
              ELSE /\ call.error.cls = "SpotifyError"
                   /\ call.error.cause = call.last_exception.cls

\* Two consecutive 500 responses with max retries 1: two attempts were made
\* and ServerError was raised.
C11_Witness ==
    /\ call.pc = "raised"
    /\ call.only_retryable
    /\ call.retries = 1
    /\ call.http_attempts = 2
    /\ call.error.cls = "ServerError"
    /\ call.error.status_code = 500

\* An attempt of request() was made in this step.
Attempted == call.pc = "attempt" /\ call' # call

\* The attempt hit a non-retryable error: the provider failed to give a
\* token, or the response was a non-2xx status below 500 other than 429.
NonRetryableAttempt(o) ==
    \/ o.token = "failed"
    \/ /\ o.net = "response"
       /\ ~is_success(o.response)
       /\ o.response.status < 500
       /\ o.response.status # 429

\* The error kind the claim names for a non-retryable attempt.
NonRetryableKind(o) ==
    IF o.token = "failed" \/ o.response.status = 401
    THEN "AuthenticationError"
    ELSE IF o.response.status = 400 THEN "BadRequestError"
    ELSE IF o.response.status = 403 THEN "ForbiddenError"
    ELSE IF o.response.status = 404 THEN "NotFoundError"
    ELSE "SpotifyError"

\* C12: an attempt of request() that produces BadRequest, Forbidden,
\* NotFound, a generic API error or an authentication failure (a 401 or one
\* raised by the provider) ends the call by raising that error, without a
\* sleep, whatever attempt it is and whatever max retries is; no attempt
\* follows a raise.
C12_NonRetryableSurface ==
    [][/\ Attempted /\ NonRetryableAttempt(call'.outcome) =>
              /\ call'.pc = "raised"
              /\ call'.error.cls = NonRetryableKind(call'.outcome)
              /\ call'.outcome.token # "failed" =>
                     call'.error.status_code = call'.outcome.response.status
              /\ call'.sleeps = call.sleeps
              /\ call'.attempt = call.attempt
       /\ call.pc = "raised" /\ call' # call => call'.http_attempts = 0
      ]_vars

\* A 404 on the first attempt of a request with a retry left was raised at
\* once.
C12_Witness ==
    /\ call.pc = "raised"
    /\ call.error.cls = "NotFoundError"
    /\ call.retries = 1
    /\ call.attempt = 0
    /\ call.http_attempts = 1
    /\ call.sleeps = <<>>

\* The delay, in seconds, a Retry-After header of the delay-seconds form
\* asks for.
RetryAfterSeconds(h) == IF h = "2" THEN 2 ELSE 0

\* C13: an attempt of request() that receives 429 with a Retry-After header
\* of v seconds while a retry remains sleeps exactly v before the next
\* attempt, for every v; and a 429 with Retry-After: 2 followed by a 200
\* makes exactly one sleep, of 2, and returns the body of the 200.
C13_RetryAfterHonored ==
    [][Attempted /\ call'.outcome.net = "response" =>
           LET response == call'.outcome.response
           IN  /\ response.status = 429
                  /\ response.retry_after \in {"0", "2"}
                  /\ call.attempt < call.retries =>
                      /\ call'.pc = "attempt"
                      /\ call'.attempt = call.attempt + 1
                      /\ call'.sleeps =
                             Append(call.sleeps,
                                    1000 * RetryAfterSeconds(
                                               response.retry_after))
               /\ response.status = 200
                  /\ call.http_attempts = 1
                  /\ call.outcome.response.status = 429
                  /\ call.outcome.response.retry_after = "2" =>
                      /\ call'.pc = "returned"
                      /\ call'.result = json_loads(response.body)
                      /\ call'.sleeps = <<2000>>
      ]_vars

\* The body of the handled response as the transport hands it on: the
\* decoded JSON, the empty object when it cannot be decoded.
BodyData ==
    IF json_loads(handled.response.body) = Invalid THEN EmptyDict
    ELSE json_loads(handled.response.body)

\* The error kind the claim gives for a non-2xx status.
ClaimedKind(status) ==
    IF status = 400 THEN "BadRequestError"
    ELSE IF status = 401 THEN "AuthenticationError"
    ELSE IF status = 403 THEN "ForbiddenError"
    ELSE IF status = 404 THEN "NotFoundError"
    ELSE IF status = 429 THEN "RateLimitError"
    ELSE IF status >= 500 THEN "ServerError"
    ELSE "SpotifyError"

\* C14: for every response, _handle_response() yields: 204 -> the empty
\* object without parsing the body; another 2xx -> the parsed JSON body, the
\* empty object when it cannot be parsed; 400 -> BadRequest; 401 ->
\* Authentication; 403 -> Forbidden; 404 -> NotFound; 429 -> RateLimit with
\* retry_after taken from the Retry-After header, 1 when there is none;
\* >= 500 -> Server; any other status -> the generic API error; every error
\* carries the status code and the body.
C14_ResponseClassification ==
    handled.done =>
        LET r == handled.response
        IN  IF r.status = 204
            THEN /\ handled.result = EmptyDict
                 /\ ~handled.parsed
                 /\ handled.error = NoException
            ELSE IF r.status >= 200 /\ r.status <= 299
            THEN /\ handled.result = BodyData
                 /\ handled.error = NoException
            ELSE /\ handled.result = NoValue
                 /\ handled.error.cls = ClaimedKind(r.status)
                 /\ handled.error.status_code = r.status
                 /\ handled.error.response_body = BodyData
                 /\ r.status = 429 =>
                        handled.error.retry_after =
                            IF r.retry_after = Absent THEN 1
                            ELSE RetryAfterSeconds(r.retry_after)

\* C15: an attempt of request() that ends in a connect or timeout error
\* raises nothing while a retry is left: the call sleeps and goes on to the
\* next attempt; on the last of the k+1 attempts the call raises a generic
\* API error without HTTP status, made from that connect or timeout error.
C15_ConnectErrorsWrappedLast ==
    [][/\ Attempted
          /\ call'.outcome.net \in {"ConnectError", "TimeoutException"} =>
              IF call.attempt < call.retries
              THEN /\ call'.pc = "attempt"
                   /\ call'.error = NoException
                   /\ call'.attempt = call.attempt + 1
                   /\ Len(call'.sleeps) = Len(call.sleeps) + 1
              ELSE /\ call'.pc = "raised"
                   /\ call'.error.cls = "SpotifyError"
                   /\ call'.error.status_code = NoInt
                   /\ call'.error.cause = call'.outcome.net
                   /\ call'.attempt = call.retries
       /\ call.pc = "raised" /\ call.error.cause # None
          /\ call.outcome.net # None =>
              /\ call.attempt = call.retries
              /\ call.outcome.net \in {"ConnectError", "TimeoutException"}
      ]_vars

\* A timeout on both attempts of a request with max retries 1: one sleep,
\* two attempts, then the generic API error.
C15_Witness ==
    /\ call.pc = "raised"
    /\ call.error.cls = "SpotifyError"
    /\ call.error.cause = "TimeoutException"
    /\ call.last_exception.cls = "TimeoutException"
    /\ call.retries = 1
    /\ call.http_attempts = 2
    /\ Len(call.sleeps) = 1

\* The attempt was sent and ended in a failure of a retryable kind: a
\* connect or timeout error, or a response for which _handle_response()
\* raises RateLimitError or ServerError.
RetryableAttempt(o) ==
    \/ o.net \in {"ConnectError", "TimeoutException"}
    \/ /\ o.net = "response"
       /\ RetryableFailure(handle_response(o.response).error)

\* The failure of a retryable attempt as it was raised inside request().
AttemptFailure(o) ==
    IF o.net # "response" THEN TransportFailure(o.net)
    ELSE handle_response(o.response).error

\* C16 as stated: a retryable failure (RateLimit, Server, connect or
\* timeout) on the last attempt the retry limit allows is raised to the
\* caller as it is, not wrapped, with its kind and status.
C16_RetryablePropagation_AsStated ==
    [][Attempted /\ call.attempt = call.retries
       /\ RetryableAttempt(call'.outcome) =>
           /\ call'.pc = "raised"
           /\ call'.error = AttemptFailure(call'.outcome)
      ]_vars

\* C16: a RateLimit or Server failure on the last attempt the retry limit
\* allows is raised to the caller as it is, with its kind, status, body and
\* retry_after; a connect or timeout error on that attempt is raised wrapped
\* in a generic API error that has no status and names it as its cause.
C16_RetryablePropagation ==
    [][Attempted /\ call.attempt = call.retries
       /\ RetryableAttempt(call'.outcome) =>
           /\ call'.pc = "raised"
           /\ IF call'.outcome.net = "response"
              THEN /\ call'.error = AttemptFailure(call'.outcome)
                   /\ call'.error.cls \in {"RateLimitError", "ServerError"}
                   /\ call'.error.status_code =
                          call'.outcome.response.status
                   /\ call'.error.cause = None
              ELSE /\ call'.error.cls = "SpotifyError"
                   /\ call'.error.status_code = NoInt
                   /\ call'.error.cause = call'.outcome.net
      ]_vars

\* A 429 on both attempts of a request with max retries 1: RateLimitError
\* with status 429 reached the caller.
C16_Witness ==
    /\ call.pc = "raised"
    /\ call.retries = 1
    /\ call.http_attempts = 2
    /\ call.error.cls = "RateLimitError"
    /\ call.error.status_code = 429
    /\ call.error = call.last_exception

\* The connections the transport created itself.
TransportConns == {i \in DOMAIN conns : conns[i].owner = "transport"}

\* C17: whatever requests were made and however often close() is called,
\* each connection the transport created is closed exactly once, when the
\* transport lets go of it, and never again; every close() leaves the
\* transport without a connection; and leaving the "async with" block, with
\* or without an exception of the last request, runs close().
C17_CloseIdempotent ==
    [][/\ \A i \in TransportConns :
              conns[i].closes = IF transport._client = i THEN 0 ELSE 1
       /\ transport'.closes # transport.closes =>
              /\ transport'.closes = transport.closes + 1
              /\ transport'._client = 0
              /\ \A i \in TransportConns : conns'[i].closes = 1
              /\ call' = call
       /\ transport.scope = "inside" /\ transport'.scope # "inside" =>
              /\ transport'.scope = "exited"
              /\ transport'.closes = transport.closes + 1
      ]_vars

\* A request inside "async with" raised, the block was left by that
\* exception and close() was called once more: the one connection the
\* transport created was closed once.
C17_Witness ==
    /\ transport.scope = "exited"
    /\ call.pc = "raised"
    /\ transport.closes = 2
    /\ transport._client = 0
    /\ Cardinality(TransportConns) = 1
    /\ \A i \in TransportConns : conns[i].closes = 1

\* The connections the caller handed to the credential provider.
CallerConns == {i \in DOMAIN conns : conns[i].owner = "caller"}

\* C18: a connection the caller supplied to the credential provider is
\* never closed, neither by the provider's close() nor through the
\* transport's close(); a connection the provider created itself is closed,
\* once, by the close() that finds the provider holding it.
C18_ConnectionOwnership ==
    [][/\ \A i \in CallerConns : conns[i].closes = 0
       /\ auth_client'.closes # auth_client.closes =>
              IF auth_client._client \in DOMAIN conns \ CallerConns
              THEN /\ conns[auth_client._client].owner = "provider"
                   /\ conns[auth_client._client].closes = 0
                   /\ conns'[auth_client._client].closes = 1
                   /\ auth_client'._client = 0
              ELSE auth_client'._client = auth_client._client
       /\ transport'.closes # transport.closes
          /\ transport._auth_provider # None /\ auth_client.has_close =>
              auth_client'.closes = auth_client.closes + 1
      ]_vars

\* The provider was given the caller's connection, requests were made and
\* close() ran twice: the caller's connection is still open and still the
\* provider's.
C18_Witness ==
    /\ CallerConns = {1}
    /\ conns[1].closes = 0
    /\ auth_client._client = 1
    /\ auth_client.has_close
    /\ transport.requests = 2
    /\ transport.closes = 2
    /\ auth_client.closes = 2

\* authorize_local() is past _wait_for_local_callback: that call returned
\* or raised.
WaitCallLeft == loopback.pc \in {"parse", "exchange", "returned", "raised"}

\* C19: once the listener was started, _wait_for_local_callback is not left,
\* by return or by any exception, before the listener is stopped and its
\* socket is closed; the listener serves only while that call is running.
C19_NoListenerLeak ==
    /\ loopback.listener # "none" /\ WaitCallLeft =>
           /\ loopback.listener = "stopped"
           /\ loopback.socket = "closed"
    /\ loopback.listener = "serving" =>
           loopback.pc \in {"handler", "browser", "wait", "finally"}

\* The wait timed out and authorize_local raised: the listener that had
\* been started is stopped and its socket closed.
C19_Witness ==
    /\ loopback.op = "authorize_local"
    /\ loopback.pc = "raised"
    /\ loopback.error = AuthenticationError("Timed out")
    /\ loopback.listener = "stopped"
    /\ loopback.socket = "closed"

\* The callback that was parsed carries a state other than the expected
\* one (a missing state included).
StateDiffers ==
    /\ loopback.expected_state # None
    /\ first_value(loopback.url, "state") # loopback.expected_state

\* The callback has been given to parse_response_url().
CallbackParsed ==
    \/ loopback.op = "parse_response_url"
    \/ loopback.op = "authorize_local"
       /\ loopback.pc \in {"exchange", "returned", "raised"}
       /\ loopback.error.cls \notin {"ValueError", "OSError", "RuntimeError",
                                    "HandlerError"}
       /\ loopback.error \notin {AuthenticationError("Timed out"),
                                AuthenticationError("Could not open browser")}

\* C20: in authorize_local and in parse_response_url, a callback whose state
\* differs from the expected state ends in an authentication failure, and
\* no request is made to the token endpoint, even when the callback carries
\* a code.
C20_StateCheckFirst ==
    CallbackParsed /\ StateDiffers =>
        /\ loopback.pc = "raised"
        /\ loopback.error.cls = "AuthenticationError"
        /\ loopback.token_requests = 0
        /\ loopback.result = None

\* The loopback flow captured a callback with a code and the state "ok"
\* while it expected its own generated state: it raised the state mismatch
\* and asked the token endpoint nothing.
C20_Witness ==
    /\ loopback.op = "authorize_local"
    /\ loopback.expected_state = token_urlsafe
    /\ first_value(loopback.url, "state") = "ok"
    /\ first_value(loopback.url, "code") = "abc123"
    /\ loopback.pc = "raised"
    /\ loopback.error = AuthenticationError("State mismatch")
    /\ loopback.token_requests = 0

\* The call of _wait_for_local_callback returned a callback to
\* authorize_local.
CallbackReturned ==
    /\ loopback.op = "authorize_local"
    /\ WaitCallLeft
    /\ loopback.listener = "stopped"
    /\ loopback.error \notin {AuthenticationError("Timed out"),
                             AuthenticationError("Could not open browser"),
                             Failure("HandlerError", "handler")}

\* C21: during one loopback authorization call the listener answers at most
\* one request with 200, whatever requests reach the expected path and
\* however they interleave with the waiting caller; when the call got a
\* callback, exactly one request was answered 200.
C21_SingleRequestListener ==
    /\ loopback.served <= 1
    /\ CallbackReturned => loopback.served = 1

\* C22: a request to another path is answered 404 and leaves the event and
\* the captured callback as they were; when the wait ends and no request has
\* reached the expected path, the call raises the timeout authentication
\* failure, which is not the failure raised for an error parameter; after
\* the call raised, nothing more happens in it; and a call that raised the
\* timeout has asked the token endpoint nothing.
C22_LoopbackTimeout ==
    [][/\ loopback'.gets = loopback.gets + 1
          /\ loopback'.served = loopback.served =>
              /\ loopback'.received = loopback.received
              /\ loopback'.has_callback = loopback.has_callback
              /\ loopback'.callback_path = loopback.callback_path
              /\ loopback'.pc = loopback.pc
       /\ loopback.pc = "wait" /\ loopback'.pc # "wait"
          /\ loopback.served = 0 =>
              /\ loopback'.pc = "finally"
              /\ loopback'.pending = AuthenticationError("Timed out")
              /\ loopback'.pending # AuthenticationError("Authorization failed")
       /\ loopback.pending = AuthenticationError("Timed out") =>
              /\ loopback'.pc \in {"finally", "raised"}
              /\ loopback'.pc = "raised" =>
                     loopback'.error = AuthenticationError("Timed out")
              /\ loopback'.token_requests = 0
       /\ loopback.pc = "raised" =>
              /\ loopback'.pc = "raised"
              /\ loopback'.error = loopback.error
              /\ loopback'.token_requests = loopback.token_requests
      ]_vars

\* Two requests went to other paths and were answered 404, none reached the
\* expected path, and the call raised the timeout without asking the token
\* endpoint.
C22_Witness ==
    /\ loopback.op = "authorize_local"
    /\ loopback.gets = 2
    /\ loopback.served = 0
    /\ loopback.pc = "raised"
    /\ loopback.error = AuthenticationError("Timed out")
    /\ loopback.token_requests = 0

\* The authorization URL is about to be, or has been, given to the caller's
\* handler or to the browser, and the wait has not ended.
UrlHandedOut == loopback.pc \in {"handler", "browser", "wait"}

\* C30: from the step that hands the authorization URL to the caller's
\* handler until the wait ends, the listener is bound and serving; the
\* handler step comes before the browser step and the browser step before
\* the wait; and a callback that arrived in that time is what the wait
\* returns.
C30_ListenerBeforeUrl ==
    [][/\ UrlHandedOut =>
              /\ loopback.listener = "serving"
              /\ loopback.socket = "open"
       /\ loopback.pc = "start" =>
              loopback'.pc \in {"start", "handler", "raised"}
       /\ loopback.pc = "handler" =>
              loopback'.pc \in {"handler", "browser", "finally"}
       /\ loopback.pc = "browser" =>
              loopback'.pc \in {"browser", "wait", "finally"}
       /\ loopback.pc = "wait" /\ loopback'.pc # "wait"
          /\ loopback.served > 0 =>
              /\ loopback'.pc = "finally"
              /\ loopback'.pending = NoFailure
              /\ loopback'.callback_path = loopback.callback_path
      ]_vars

\* The handler has been given the URL, the browser is not yet opened, and a
\* callback has already been received by the listener.
C30_Witness ==
    /\ loopback.op = "authorize_local"
    /\ loopback.pc = "browser"
    /\ loopback.handler
    /\ loopback.open_browser
    /\ loopback.listener = "serving"
    /\ loopback.served = 1
    /\ loopback.has_callback

\* C23: FileTokenCache.get() never raises: whatever lies at the path (no
\* file, an unreadable file, text that is not JSON, JSON of any shape, keys
\* of any type), it returns a TokenInfo or None.
C23_GetNeverRaises ==
    file_cache.op = "get" =>
        /\ file_cache.returned \in {"TokenInfo", "None"}
        /\ file_cache.error = None

ProviderDone == frame[Caller].pc = "returned"

\* The attempt made in this step sent a request to the API.
AttemptSent == Attempted /\ call'.http_attempts = call.http_attempts + 1

\* C25: every attempt of request() that sends a request, the first and each
\* retry, has made its own get_access_token() call and carries the value
\* that call returned, which is the access token the provider's cache holds
\* at that moment; when the provider refreshed in that attempt because the
\* cached token had expired, the attempt carries the token of the refresh.
C25_BearerPerAttempt ==
    [][AttemptSent =>
           /\ ProviderDone
           /\ frame[Caller].op = "get_access_token"
           /\ frame'[Caller] = IdleFrame
           /\ call'.bearers = Append(call.bearers, frame[Caller].result)
           /\ frame[Caller].result = token_cache.access_token
           /\ frame[Caller].path = "fetch" =>
                  frame[Caller].result =
                      frame[Caller].response.body.access_token
      ]_vars

\* The first attempt carried the cached token A0 and was answered with a
\* retryable error; the token expired during the backoff and the retry
\* carried the refreshed token A1.
C25_Witness ==
    /\ call.pc \in {"returned", "raised"}
    /\ call.http_attempts = 2
    /\ call.bearers = <<"A0", "A1">>
    /\ token_cache.access_token = "A1"

\* C26: when get_access_token() raises ServerError inside an attempt of
\* request(), no request is sent to the API in that attempt and the error
\* is handled like a 5xx response: with a retry left the call sleeps the
\* backoff and makes the next attempt, without one it raises the
\* ServerError; when get_access_token() raises the generic error made of a
\* connection failure, request() raises it at once, whatever attempt it is;
\* and a request() with k transport retries on a provider with m retries
\* makes at most (k+1)*(m+1) requests to the token endpoint.
C26_ProviderServerError ==
    [][/\ Attempted /\ ProviderDone /\ frame[Caller].path = "raise"
          /\ frame[Caller].result = "ServerError" =>
              /\ call'.http_attempts = call.http_attempts
              /\ call'.bearers = call.bearers
              /\ IF call.attempt < call.retries
                 THEN /\ call'.pc = "attempt"
                      /\ call'.attempt = call.attempt + 1
                      /\ \E jitter \in Jitters :
                             call'.sleeps =
                                 Append(call.sleeps,
                                        calculate_backoff(call.attempt,
                                                          jitter))
                 ELSE /\ call'.pc = "raised"
                      /\ call'.error.cls = "ServerError"
                      /\ call'.sleeps = call.sleeps
       /\ Attempted /\ ProviderDone /\ frame[Caller].path = "raise"
          /\ frame[Caller].result = "SpotifyError" =>
              /\ call'.pc = "raised"
              /\ call'.error.cls = "SpotifyError"
              /\ call'.http_attempts = call.http_attempts
              /\ call'.sleeps = call.sleeps
              /\ call'.attempt = call.attempt
       /\ call'.pc # "idle" =>
              requests' - call'.posts_before
                  <= (call'.retries + 1) * (max_retries + 1)
      ]_vars

\* A request() with one retry on a provider without retries: the token
\* endpoint answered both token requests with 5xx, the call slept once, sent
\* nothing to the API and raised ServerError.
C26_Witness ==
    /\ call.pc = "raised"
    /\ call.error.cls = "ServerError"
    /\ call.retries = 1
    /\ max_retries = 0
    /\ call.http_attempts = 0
    /\ Len(call.sleeps) = 1
    /\ requests - call.posts_before = 2

\* No call on the provider is between its first and its last statement.
NoTokenOperation == \A t \in Threads : frame[t].pc \in {"idle", "returned"}

\* C27 as stated: on an AuthorizationCode provider that has stored a token,
\* whenever no token operation is in progress the provider's _refresh_token
\* equals the refresh token of the TokenInfo in its cache, whatever the
\* interleaving of the exchange_code() and get_access_token() calls was.
C27_ProviderCacheAgreement ==
    NoTokenOperation /\ token_cache # NoToken =>
        self_refresh_token = token_cache.refresh_token

\* The call of thread t ends in an error in this step.
CallFails(t) ==
    /\ frame[t].pc # "returned"
    /\ frame'[t].pc = "returned"
    /\ frame'[t].path = "raise"

\* Thread t receives a 2xx answer in this step and its _fetch_token returns
\* the TokenInfo built from it.
ExchangeSucceeds(t) ==
    /\ frame[t].pc = "await"
    /\ frame'[t].response # ConnectFailure
    /\ is_success(frame'[t].response)
    /\ \/ frame'[t].pc = "set_refresh" /\ frame'[t].token_info = token_cache'
       \/ frame'[t].pc = "returned" /\ frame'[t].path = "fetch"
          /\ frame'[t].result = token_cache'.access_token

\* C29: a step in which exchange_code() or get_access_token() ends in an
\* error leaves the token cache and the provider's _refresh_token as they
\* were, and so does every earlier step of that call: the cache changes only
\* in the step that receives a successful answer, _refresh_token only in the
\* statement after it, and a call that has stored its token returns it.
C29_FailedExchangeLeavesState ==
    [][/\ \A t \in Threads :
            /\ CallFails(t) =>
                   /\ token_cache' = token_cache
                   /\ self_refresh_token' = self_refresh_token
            /\ frame[t].pc = "set_refresh" /\ frame'[t] # frame[t] =>
                   /\ frame'[t].pc = "returned"
                   /\ frame'[t].path = "fetch"
       /\ token_cache' # token_cache =>
              \E t \in Threads : ExchangeSucceeds(t)
       /\ self_refresh_token' # self_refresh_token =>
              \E t \in Threads :
                  /\ frame[t].pc = "set_refresh"
                  /\ frame'[t].path = "fetch"
                  /\ self_refresh_token' =
                         frame[t].token_info.refresh_token
      ]_vars

\* A refresh that used up its retries on 5xx answers and raised ServerError,
\* on a provider whose cache holds the stale token and which retains Rb.
C29_Witness ==
    \E t \in Threads :
        /\ frame[t].pc = "returned"
        /\ frame[t].op = "get_access_token"
        /\ frame[t].path = "raise"
        /\ frame[t].result = "ServerError"
        /\ frame[t].call_requests = 2
        /\ token_cache = TokenInfo("A0", 0, "R0", None)
        /\ self_refresh_token = "Rb"

\* Thread t is inside the with-block of get_access_token().
InsideWith(t) ==
    /\ frame[t].op = "get_access_token"
    /\ frame[t].pc \in {"gat_refresh", "await", "set_refresh"}

\* The exchange of thread t's call failed: it posted and raised.
ExchangeFailed(t) ==
    /\ frame[t].pc = "returned"
    /\ frame[t].path = "raise"
    /\ frame[t].call_requests >= 1

\* No call has stored a token.
NoExchangeSucceeded ==
    \A t \in Threads :
        frame[t].pc # "set_refresh" /\ frame[t].path # "fetch"

\* C28: the lock is held only by a thread inside the with-block of
\* get_access_token(), so every return and every raise has released it; under
\* fair scheduling, with every token request answered, every concurrent
\* get_access_token() call eventually returns or raises; and while no exchange
\* has succeeded, a call that finished after going to the lock, beside a call
\* whose exchange failed, posted a request of its own.
C28_NoDeadlockAfterFailure ==
    /\ [](\A t \in Threads : lock = t => InsideWith(t))
    /\ [](lock \in Threads \cup {0})
    /\ \A t \in Threads :
           (frame[t].pc # "idle") ~> (frame[t].pc = "returned")
    /\ [](\A t, u \in Threads :
              /\ ExchangeFailed(u)
              /\ NoExchangeSucceeded
              /\ frame[t].pc = "returned"
              /\ frame[t].path # "fast"
              => /\ frame[t].call_requests >= 1
                 /\ lock # t)

\* Two concurrent callers on a clock that has not advanced: the exchange of
\* one failed and it raised; the other took the lock after it, posted its own
\* request and returned the token it obtained, which is now cached and
\* usable; the lock is free.
C28_Witness ==
    \E t, u \in Threads :
        /\ ExchangeFailed(u)
        /\ frame[u].op = "get_access_token"
        /\ frame[t].pc = "returned"
        /\ frame[t].op = "get_access_token"
        /\ frame[t].path = "fetch"
        /\ frame[t].call_requests = 1
        /\ frame[t].result = "A1"
        /\ now = 0
        /\ skew_seconds = 0
        /\ CacheUsable(token_cache)
        /\ lock = 0

====
